---- MODULE Spec2Model ----
(***************************************************************************)
(* Multi-patient OpenAPS server (server.js): the in-memory patient store,  *)
(* history ingest and retention, the calculation pipeline, the stderr      *)
(* capture and the per-patient calculation log.                            *)
(*                                                                         *)
(* Conventions of the model                                                *)
(*  - Times are whole seconds (the JavaScript millisecond values divided   *)
(*    by 1000) so that every value stays inside TLC's integer range.       *)
(*  - A JavaScript object is a function from field names to values; a      *)
(*    nullable value is None (<<>>) or Some(v) (<<v>>).                    *)
(*  - Arrays and profile objects live in `heap` and are held by reference, *)
(*    because createPatient stores the caller's objects and push/sort/     *)
(*    Object.assign mutate them in place.                                  *)
(*  - The lib/ collaborators (iob, meal, autosens, glucose-get-last,       *)
(*    determine-basal) are uninterpreted: their result is the term built   *)
(*    from their inputs. Whether one of them throws on an invocation is    *)
(*    drawn per request (`fault`).                                         *)
(***************************************************************************)
EXTENDS Integers, Sequences, FiniteSets, TLC

VARIABLES workload, patients, heap, logFileMap, logFiles, stderrWrite, now, last,
          loop

vars == <<workload, patients, heap, logFileMap, logFiles, stderrWrite, now, last,
          loop>>

----------------------------------------------------------------------------
(* Bounds of the model *)

MaxTicks == 1
MaxItems == 2
MaxScenarioLen == 5
MaxArrivals == 4

----------------------------------------------------------------------------
(* Program constants *)

HourSec == 3600
DaySec == 86400
WeekSec == 604800
MonthSec == 2592000
AutosensMinGlucose == 24
MealMinGlucose == 36
BasicSteps == 3
BasicSpacingSec == 300
BasicStartGlucose == 115
BasicDecrement == 2
MealSteps == 6
MealSpacingSec == 600
MealStartGlucose == 120
MealIncrement == 15
MealCarbs == 60

----------------------------------------------------------------------------
(* Values *)

None == <<>>
Some(v) == <<v>>
IsSome(o) == o # None
Get(o) == o[1]

Has(obj, f) == f \in DOMAIN obj

\* { ...a, ...b } and Object.assign(a, b)
Overlay(a, b) ==
  [f \in (DOMAIN a) \cup (DOMAIN b) |-> IF f \in DOMAIN b THEN b[f] ELSE a[f]]

PatientIds == {"p1"}

StartTime == 1750000000
TickSec == 300
ClockValues == {StartTime + i * TickSec : i \in 0..MaxTicks}

\* new Date(ms).toISOString() and new Date(str).getTime() / Date.parse(str)
ToISOString(t) == [iso |-> t]
ParseDate(str) == str.iso

StreamNames == {"glucose", "pump", "carbs"}

\* the ordering key of an item of a stream
KeyOf(stream, item) ==
  IF stream = "glucose" THEN item.date ELSE ParseDate(item.timestamp)

Keys(stream, arr) == {KeyOf(stream, arr[i]) : i \in 1..Len(arr)}

SetMax(S) == CHOOSE m \in S : \A x \in S : x <= m

----------------------------------------------------------------------------
(* Array.prototype.sort with a (a, b) => key(b) - key(a) comparator:       *)
(* stable, newest first.                                                   *)

RECURSIVE InsertDesc(_, _, _)
InsertDesc(stream, x, sorted) ==
  IF sorted = <<>> THEN <<x>>
  ELSE IF KeyOf(stream, Head(sorted)) - KeyOf(stream, x) <= 0
       THEN <<x>> \o sorted
       ELSE <<Head(sorted)>> \o InsertDesc(stream, x, Tail(sorted))

RECURSIVE SortDesc(_, _)
SortDesc(stream, arr) ==
  IF arr = <<>> THEN <<>>
  ELSE InsertDesc(stream, Head(arr), SortDesc(stream, Tail(arr)))

----------------------------------------------------------------------------
(* The object store. A reference names the holder that first owned the     *)
(* object: a built-in template of testCases or a session.                  *)

Ref(owner, field) == [owner |-> owner, field |-> field]
TestCaseNames == {"basicPatient", "emergencyPatient"}
ObjectFields == {"profile", "glucose", "pump", "carbs"}
Refs == {Ref(o, f) : o \in TestCaseNames \cup PatientIds, f \in ObjectFields}

\* the process state the handlers work on: the `patients` map, the heap it
\* points into and the function installed as process.stderr.write
Store(p, h, w) == [patients |-> p, heap |-> h, write |-> w]

Exists(st, id) == IsSome(st.patients[id])
Patient(st, id) == Get(st.patients[id])
ProfileOf(st, id) == st.heap[Patient(st, id).profile]
HistoryOf(st, id, stream) == st.heap[Patient(st, id).history[stream]]

SetHeap(st, ref, value) == [st EXCEPT !.heap[ref] = value]
SetPatient(st, id, patient) == [st EXCEPT !.patients[id] = Some(patient)]

\* process.stderr.write = w
SetWrite(st, w) == [st EXCEPT !.write = w]

\* objects no session and no template refers to are dropped
Collect(st) ==
  LET live(r) == \/ r.owner \in TestCaseNames
                 \/ /\ Exists(st, r.owner)
                    /\ \/ Patient(st, r.owner).profile = r
                       \/ \E s \in StreamNames : Patient(st, r.owner).history[s] = r
  IN [st EXCEPT !.heap = [r \in Refs |-> IF live(r) THEN st.heap[r] ELSE <<>>]]

----------------------------------------------------------------------------
(* PatientDataManager *)

defaultSettings ==
  [timezone |-> "UTC", historyRetentionPeriod |-> "weeks",
   historyRetentionValue |-> 1, autoCleanup |-> TRUE]

\* variant: only the glucose array is sorted
sortHistoryArrays_glucoseOnly(st, id) ==
  IF ~Exists(st, id) THEN st
  ELSE [st EXCEPT !.heap =
          [r \in Refs |->
             IF r = Patient(st, id).history.glucose
             THEN SortDesc("glucose", st.heap[r])
             ELSE st.heap[r]]]

\* the three arrays are distinct objects, each sorted in place
sortHistoryArrays(st, id) ==
  IF ~Exists(st, id) THEN st
  ELSE [st EXCEPT !.heap =
          [r \in Refs |->
             CASE r = Patient(st, id).history.glucose -> SortDesc("glucose", st.heap[r])
               [] r = Patient(st, id).history.pump -> SortDesc("pump", st.heap[r])
               [] r = Patient(st, id).history.carbs -> SortDesc("carbs", st.heap[r])
               [] OTHER -> st.heap[r]]]

\* An argument object is either one already in the heap (a template's) or a
\* fresh one parsed from a request body: [ref |-> r] or [value |-> v].
IsRef(arg) == Has(arg, "ref")

\* binds the object `arg` for field `field` of session `id`
Bind(st, id, field, arg) ==
  IF IsRef(arg) THEN st ELSE SetHeap(st, Ref(id, field), arg.value)
BoundRef(id, field, arg) ==
  IF IsRef(arg) THEN arg.ref ELSE Ref(id, field)

\* initialData.x || []
OrEmpty(initialData, f) ==
  IF Has(initialData, f) THEN initialData[f] ELSE [value |-> <<>>]

createPatient(st, id, profile, initialData, settings, clock) ==
  LET g == OrEmpty(initialData, "glucoseHistory")
      p == OrEmpty(initialData, "pumpHistory")
      c == OrEmpty(initialData, "carbHistory")
      s0 == Bind(Bind(Bind(Bind(st, id, "profile", profile),
                 id, "glucose", g), id, "pump", p), id, "carbs", c)
      patient ==
        [profile |-> BoundRef(id, "profile", profile),
         history |-> [glucose |-> BoundRef(id, "glucose", g),
                      pump |-> BoundRef(id, "pump", p),
                      carbs |-> BoundRef(id, "carbs", c)],
         currentState |->
           [tempBasal |-> IF Has(initialData, "currentTempBasal")
                          THEN Some(initialData.currentTempBasal) ELSE None,
            lastCalculation |-> None,
            cachedIOB |-> None,
            cachedMeal |-> None],
         settings |-> Overlay(defaultSettings, settings),
         createdAt |-> ToISOString(clock),
         lastUpdated |-> ToISOString(clock)]
  IN Collect(sortHistoryArrays(SetPatient(s0, id, patient), id))

patientExists(st, id) == Exists(st, id)

deletePatient(st, id) == Collect([st EXCEPT !.patients[id] = None])

\* patient.settings.historyRetentionValue || 1
retentionValue(settings) ==
  IF settings.historyRetentionValue = 0 THEN 1 ELSE settings.historyRetentionValue

\* patient.settings.historyRetentionPeriod || 'weeks'
retentionPeriod(settings) ==
  IF settings.historyRetentionPeriod = "" THEN "weeks"
  ELSE settings.historyRetentionPeriod

\* the switch over retentionPeriod
cutoffTime(newestTime, settings) ==
  LET v == retentionValue(settings)
      period == retentionPeriod(settings)
  IN CASE period = "hours" -> newestTime - (v * HourSec)
       [] period = "days" -> newestTime - (v * DaySec)
       [] period = "weeks" -> newestTime - (v * WeekSec)
       [] period = "months" -> newestTime - (v * MonthSec)
       [] OTHER -> newestTime - (v * HourSec)

\* variant: the newest time is taken from the glucose stream alone
newestTimeOf_glucoseOnly(st, id) ==
  SetMax({0} \cup Keys("glucose", HistoryOf(st, id, "glucose")))
\* let newestTime = 0; newestTime = Math.max(newestTime, ...) per stream
newestTimeOf(st, id) ==
  SetMax({0} \cup UNION {Keys(s, HistoryOf(st, id, s)) : s \in StreamNames})

\* variant: the filter drops the item whose key equals the cutoff
KeepFrom_strict(cutoff, stream, item) == KeyOf(stream, item) > cutoff
\* arr.filter(item => key(item) >= cutoff)
KeepFrom(cutoff, stream, item) == KeyOf(stream, item) >= cutoff

FilterStream(stream, arr, cutoff) ==
  SelectSeq(arr, LAMBDA item : KeepFrom(cutoff, stream, item))

\* variant: the pass also drops the cached results of the session
filterHistory_dropsCaches(st, id, cutoff) ==
  Collect(SetPatient(
    [st EXCEPT !.heap =
       [r \in Refs |->
          IF r.owner = id /\ r.field \in StreamNames
          THEN FilterStream(r.field, HistoryOf(st, id, r.field), cutoff)
          ELSE st.heap[r]]],
    id,
    [Patient(st, id) EXCEPT !.history = [s \in StreamNames |-> Ref(id, s)],
                            !.currentState.cachedIOB = None,
                            !.currentState.cachedMeal = None,
                            !.currentState.lastCalculation = None]))

\* the filters: each result is a new array, owned by the session alone
filterHistory(st, id, cutoff) ==
  Collect(SetPatient(
    [st EXCEPT !.heap =
       [r \in Refs |->
          IF r.owner = id /\ r.field \in StreamNames
          THEN FilterStream(r.field, HistoryOf(st, id, r.field), cutoff)
          ELSE st.heap[r]]],
    id,
    [Patient(st, id) EXCEPT !.history = [s \in StreamNames |-> Ref(id, s)]]))

cleanupOldData(st, id) ==
  IF ~Exists(st, id) THEN st
  ELSE IF \A s \in StreamNames : Len(HistoryOf(st, id, s)) = 0 THEN st
  ELSE IF newestTimeOf(st, id) = 0 THEN st
  ELSE filterHistory(st, id, cutoffTime(newestTimeOf(st, id), Patient(st, id).settings))

\* the readings of newData.glucoseReadings, each with dateString added
renamedReadings(readings) ==
  [i \in 1..Len(readings) |->
     Overlay(readings[i], [dateString |-> readings[i].timestamp])]

Push(st, ref, items) == SetHeap(st, ref, st.heap[ref] \o items)

\* newData[field], [] when it is not there
Items(newData, field) == IF Has(newData, field) THEN newData[field] ELSE <<>>

\* the push of one field of newData, when it is there
pushField(st, newData, field, ref, items) ==
  IF Has(newData, field) THEN Push(st, ref, items) ELSE st

pushNewData(st, id, newData) ==
  pushField(
    pushField(
      pushField(st, newData, "glucoseReadings", Patient(st, id).history.glucose,
                renamedReadings(Items(newData, "glucoseReadings"))),
      newData, "pumpEvents", Patient(st, id).history.pump,
      Items(newData, "pumpEvents")),
    newData, "carbEntries", Patient(st, id).history.carbs,
    Items(newData, "carbEntries"))

\* variant: the cleanup pass runs whatever the autoCleanup setting
cleanupIfEnabled_always(st, id) == cleanupOldData(st, id)

\* if (patient.settings.autoCleanup) this.cleanupOldData(patientId)
cleanupIfEnabled(st, id) ==
  IF Patient(st, id).settings.autoCleanup THEN cleanupOldData(st, id) ELSE st

\* patient.lastUpdated = new Date().toISOString()
touch(st, id, clock) ==
  SetPatient(st, id, [Patient(st, id) EXCEPT !.lastUpdated = ToISOString(clock)])

addNewData(st, id, newData, clock) ==
  touch(cleanupIfEnabled(sortHistoryArrays(pushNewData(st, id, newData), id), id),
        id, clock)

----------------------------------------------------------------------------
(* The lib/ collaborators. Each result is the term of its inputs, so two   *)
(* results are equal exactly when the inputs were.                         *)

generateIOB(inputs) == <<[iob |-> 0, of |-> inputs]>>

generateMeal(inputs) ==
  [carbs |-> Len(inputs.carbs), mealCOB |-> 1 + Len(inputs.carbs), of |-> inputs]

detectSensitivity(inputs) == [ratio |-> 1, detected |-> TRUE, of |-> inputs]

\* absent for an empty glucose array
getLastGlucose(glucose) ==
  IF Len(glucose) = 0 THEN None
  ELSE Some([glucose |-> glucose[1].glucose, date |-> glucose[1].date,
             of |-> glucose])

\* what determine_basal does on one invocation: it writes chunks to
\* process.stderr and then returns a suggestion, returns {error} or throws
determine_basal(args, env) ==
  [writes |-> env.writes,
   threw |-> env.fault = "decision_throw",
   result |-> IF env.fault = "decision_error"
              THEN [error |-> "Error: could not get current basal rate"]
              ELSE [rate |-> 0, duration |-> 30, of |-> args]]

----------------------------------------------------------------------------
(* captureStderr: the wrapper installed over process.stderr.write appends  *)
(* string chunks to stderrOutput and forwards every chunk; the original    *)
(* writer is put back on return and on throw.                              *)

RECURSIVE Captured(_)
Captured(writes) ==
  IF writes = <<>> THEN <<>>
  ELSE (IF Head(writes).type = "string" THEN <<Head(writes).data>> ELSE <<>>)
       \o Captured(Tail(writes))

\* variant: the wrapper stays installed when the callback throws
captureStderr_keepsWrapperOnThrow(originalWrite, call) ==
  [threw |-> call.threw,
   result |-> call.result,
   stderr |-> Captured(call.writes),
   forwarded |-> call.writes,
   write |-> IF call.threw THEN "wrapper" ELSE originalWrite]

captureStderr(originalWrite, call) ==
  [threw |-> call.threw,
   result |-> call.result,
   stderr |-> Captured(call.writes),
   forwarded |-> call.writes,
   write |-> originalWrite]

----------------------------------------------------------------------------
(* The calculation functions *)

\* profile.basalprofile || [{ minutes: 0, rate: profile.current_basal, ... }]
basalprofileOf(profile) ==
  IF Has(profile, "basalprofile") THEN profile.basalprofile
  ELSE <<Overlay([minutes |-> 0, start |-> "00:00:00", i |-> 0],
                 IF Has(profile, "current_basal")
                 THEN [rate |-> profile.current_basal] ELSE <<>>)>>

calculateIOBForPatient(st, id, clock, autosensData) ==
  LET inputs == [history |-> HistoryOf(st, id, "pump"),
                 history24 |-> None,
                 profile |-> ProfileOf(st, id),
                 clock |-> clock]
  IN generateIOB(IF IsSome(autosensData)
                 THEN Overlay(inputs, [autosens |-> Get(autosensData)])
                 ELSE inputs)

\* variant: the result of generateMeal is returned as it is
calculateMealForPatient_keepsCOB(st, id, clock) ==
  generateMeal([history |-> HistoryOf(st, id, "pump"),
                profile |-> ProfileOf(st, id),
                basalprofile |-> basalprofileOf(ProfileOf(st, id)),
                clock |-> clock,
                carbs |-> HistoryOf(st, id, "carbs"),
                glucose |-> HistoryOf(st, id, "glucose")])

calculateMealForPatient(st, id, clock) ==
  LET inputs == [history |-> HistoryOf(st, id, "pump"),
                 profile |-> ProfileOf(st, id),
                 basalprofile |-> basalprofileOf(ProfileOf(st, id)),
                 clock |-> clock,
                 carbs |-> HistoryOf(st, id, "carbs"),
                 glucose |-> HistoryOf(st, id, "glucose")]
      recentCarbs == generateMeal(inputs)
  IN IF Len(HistoryOf(st, id, "glucose")) < MealMinGlucose
     THEN Overlay(recentCarbs,
            [mealCOB |-> 0,
             reason |-> "not enough glucose data to calculate carb absorption"])
     ELSE recentCarbs

\* variant: the collaborator is called only above the threshold
autosensInvokes_aboveThreshold(st, id) ==
  Len(HistoryOf(st, id, "glucose")) > AutosensMinGlucose

\* TRUE when calculateAutosensForPatient calls detectSensitivity
autosensInvokes(st, id) ==
  Len(HistoryOf(st, id, "glucose")) >= AutosensMinGlucose

calculateAutosensForPatient(st, id, currentTime) ==
  IF ~autosensInvokes(st, id)
  THEN Overlay([ratio |-> 1],
               IF Has(ProfileOf(st, id), "sens")
               THEN [newisf |-> ProfileOf(st, id).sens] ELSE <<>>)
  ELSE detectSensitivity(
         [glucose_data |-> HistoryOf(st, id, "glucose"),
          iob_inputs |-> [profile |-> ProfileOf(st, id),
                          history |-> HistoryOf(st, id, "pump"),
                          clock |-> currentTime],
          basalprofile |-> basalprofileOf(ProfileOf(st, id)),
          carbs |-> HistoryOf(st, id, "carbs"),
          temptargets |-> <<>>,
          retrospective |-> FALSE,
          deviations |-> 96])

\* options.x, undefined when the field is not there
Opt(obj, f) == IF Has(obj, f) THEN Some(obj[f]) ELSE None

Thrown(st, message, calls) ==
  [threw |-> TRUE, error |-> message, st |-> st, calls |-> calls,
   forwarded |-> <<>>]

\* variant: the run also stores the suggestion as the running temp basal
cacheResults_setsTempBasal(st, id, iobData, mealData, lastCalculation) ==
  SetPatient(st, id,
    [Patient(st, id) EXCEPT
       !.currentState.cachedIOB = Some(iobData),
       !.currentState.cachedMeal = Some(mealData),
       !.currentState.lastCalculation = Some(lastCalculation),
       !.currentState.tempBasal = Some(lastCalculation.suggestion)])

\* variant: the meal cache is left as it was
cacheResults_withoutMeal(st, id, iobData, mealData, lastCalculation) ==
  SetPatient(st, id,
    [Patient(st, id) EXCEPT
       !.currentState.cachedIOB = Some(iobData),
       !.currentState.lastCalculation = Some(lastCalculation)])

\* the three assignments to patient.currentState that end a run
cacheResults(st, id, iobData, mealData, lastCalculation) ==
  SetPatient(st, id,
    [Patient(st, id) EXCEPT
       !.currentState.cachedIOB = Some(iobData),
       !.currentState.cachedMeal = Some(mealData),
       !.currentState.lastCalculation = Some(lastCalculation)])

\* options.enableAutosens !== false
runAutosens(options) ==
  ~(Has(options, "enableAutosens") /\ options.enableAutosens = FALSE)

\* the collaborator calls of the autosens stage
autosensCalls(st, id, options) ==
  IF runAutosens(options) /\ autosensInvokes(st, id) THEN <<"autosens">> ELSE <<>>

\* { ...patient.profile, ...options.overrideProfile }
effectiveProfile(st, id, options) ==
  Overlay(ProfileOf(st, id),
          IF Has(options, "overrideProfile") THEN options.overrideProfile ELSE <<>>)

\* variant: the default temp takes the baseline rate of the stored profile
currentTemp_storedBaseline(st, id, options) ==
  IF IsSome(Patient(st, id).currentState.tempBasal)
  THEN Get(Patient(st, id).currentState.tempBasal)
  ELSE Overlay([duration |-> 0],
               IF Has(ProfileOf(st, id), "current_basal")
               THEN [rate |-> ProfileOf(st, id).current_basal]
               ELSE <<>>)

\* patient.currentState.tempBasal || { rate: effectiveProfile.current_basal, duration: 0 }
currentTemp(st, id, options) ==
  IF IsSome(Patient(st, id).currentState.tempBasal)
  THEN Get(Patient(st, id).currentState.tempBasal)
  ELSE Overlay([duration |-> 0],
               IF Has(effectiveProfile(st, id, options), "current_basal")
               THEN [rate |-> effectiveProfile(st, id, options).current_basal]
               ELSE <<>>)

\* the arguments of the determine_basal call
decisionArgs(st, id, currentTime, options, iobData, mealData, glucoseStatus) ==
  [glucose_status |-> Get(glucoseStatus),
   currenttemp |-> currentTemp(st, id, options),
   iob_data |-> iobData,
   profile |-> effectiveProfile(st, id, options),
   autosens_data |-> Opt(options, "autosens"),
   meal_data |-> mealData,
   microbolus |-> IF Has(options, "microbolus") THEN options.microbolus ELSE FALSE,
   reservoir_data |-> None,
   currentTime |-> ParseDate(currentTime)]

\* from the return of captureStderr to the return of the run
finishRun(st, id, currentTime, calls, autosensData, iobData, mealData, glucoseStatus, captureResult) ==
  IF captureResult.threw
  THEN [Thrown(SetWrite(st, captureResult.write), "determine_basal failed", calls)
          EXCEPT !.forwarded = captureResult.forwarded]
  ELSE [threw |-> FALSE, error |-> "",
        st |-> cacheResults(SetWrite(st, captureResult.write), id, iobData, mealData,
                            [timestamp |-> currentTime,
                             suggestion |-> captureResult.result,
                             stderrLog |-> captureResult.stderr]),
        calls |-> calls,
        forwarded |-> captureResult.forwarded,
        result |-> [suggestion |-> captureResult.result,
                    iob |-> iobData[1],
                    meal |-> mealData,
                    glucoseStatus |-> Get(glucoseStatus),
                    autosens |-> autosensData,
                    stderrLog |-> captureResult.stderr]]

\* variant: the IOB collaborator is called a second time when it fails
runStages_retriesIob(st, id, currentTime, options, env, calls, autosensData, iobData, mealData, glucoseStatus) ==
  IF calls # <<>> /\ env.fault = "autosens"
    THEN Thrown(st, "autosens failed", calls)
  ELSE IF env.fault = "iob"
    THEN Thrown(st, "iob failed", calls \o <<"iob", "iob">>)
  ELSE IF env.fault = "meal"
    THEN Thrown(st, "meal failed", calls \o <<"iob", "meal">>)
  ELSE IF ~IsSome(glucoseStatus)
    THEN Thrown(st, "No glucose data available for calculation",
                calls \o <<"iob", "meal", "glucose">>)
  ELSE finishRun(st, id, currentTime, calls \o <<"iob", "meal", "glucose", "decision">>,
                 autosensData, iobData, mealData, glucoseStatus,
                 captureStderr(st.write,
                   determine_basal(decisionArgs(st, id, currentTime, options, iobData,
                                                mealData, glucoseStatus), env)))

\* from the autosens stage to the determine_basal call; a stage that fails
\* throws before the next one starts
runStages(st, id, currentTime, options, env, calls, autosensData, iobData, mealData, glucoseStatus) ==
  IF calls # <<>> /\ env.fault = "autosens"
    THEN Thrown(st, "autosens failed", calls)
  ELSE IF env.fault = "iob"
    THEN Thrown(st, "iob failed", calls \o <<"iob">>)
  ELSE IF env.fault = "meal"
    THEN Thrown(st, "meal failed", calls \o <<"iob", "meal">>)
  ELSE IF ~IsSome(glucoseStatus)
    THEN Thrown(st, "No glucose data available for calculation",
                calls \o <<"iob", "meal", "glucose">>)
  ELSE finishRun(st, id, currentTime, calls \o <<"iob", "meal", "glucose", "decision">>,
                 autosensData, iobData, mealData, glucoseStatus,
                 captureStderr(st.write,
                   determine_basal(decisionArgs(st, id, currentTime, options, iobData,
                                                mealData, glucoseStatus), env)))

\* variant: the IOB result is cached as soon as its stage has returned
runFromAutosens_cachesEarly(st, id, currentTime, options, env, autosensData) ==
  runStages(SetPatient(st, id,
              [Patient(st, id) EXCEPT !.currentState.cachedIOB =
                 Some(calculateIOBForPatient(st, id, currentTime, autosensData))]),
            id, currentTime, options, env, autosensCalls(st, id, options),
            autosensData,
            calculateIOBForPatient(st, id, currentTime, autosensData),
            calculateMealForPatient(st, id, currentTime),
            getLastGlucose(HistoryOf(st, id, "glucose")))

\* the results of the input stages, given the autosens data
runFromAutosens(st, id, currentTime, options, env, autosensData) ==
  runStages(st, id, currentTime, options, env, autosensCalls(st, id, options),
            autosensData,
            calculateIOBForPatient(st, id, currentTime, autosensData),
            calculateMealForPatient(st, id, currentTime),
            getLastGlucose(HistoryOf(st, id, "glucose")))

calculateBasalForPatient(st, id, currentTime, options, env) ==
  runFromAutosens(st, id, currentTime, options, env,
                  IF runAutosens(options)
                  THEN Some(calculateAutosensForPatient(st, id, currentTime))
                  ELSE Opt(options, "autosens"))

----------------------------------------------------------------------------
(* saveCalculationLog *)

LogName(id, suffix) == [id |-> id, suffix |-> suffix]
LogNames ==
  {LogName(id, s) : id \in PatientIds,
                    s \in {None} \cup {Some(t) : t \in ClockValues}}

\* fs.existsSync over the logs directory: files maps a name to TRUE when
\* the file is there
fileExists(files, name) == files[name]

\* variant: the name is chosen anew at every append
resolveLogFileName_everyTime(map, files, id, clock) ==
  IF fileExists(files, LogName(id, None))
  THEN LogName(id, Some(clock))
  ELSE LogName(id, None)

\* the name the map holds for id, or the one chosen now
resolveLogFileName(map, files, id, clock) ==
  IF IsSome(map[id]) THEN Get(map[id])
  ELSE IF fileExists(files, LogName(id, None))
       THEN LogName(id, Some(clock))
       ELSE LogName(id, None)

\* fs.appendFileSync: creates the file when it is not there
appendFileSync(files, name) == [files EXCEPT ![name] = TRUE]

saveCalculationLog(map, files, id, clock, appendFails) ==
  LET name == resolveLogFileName(map, files, id, clock)
  IN [map |-> [map EXCEPT ![id] = Some(name)],
      files |-> IF appendFails THEN files ELSE appendFileSync(files, name),
      threw |-> appendFails,
      name |-> name]

----------------------------------------------------------------------------
(* testCases: the built-in templates. Rates and amounts are in tenths.     *)

basicProfile ==
  [carb_ratio |-> 10, sens |-> 50, dia |-> 6, max_bg |-> 120, min_bg |-> 80,
   max_basal |-> 40, current_basal |-> 10, max_iob |-> 60,
   basalprofile |-> <<[minutes |-> 0, rate |-> 10, start |-> "00:00:00", i |-> 0],
                      [minutes |-> 360, rate |-> 8, start |-> "06:00:00", i |-> 1],
                      [minutes |-> 720, rate |-> 12, start |-> "12:00:00", i |-> 2],
                      [minutes |-> 1080, rate |-> 9, start |-> "18:00:00", i |-> 3]>>]

basicPumpHistory ==
  <<[timestamp |-> ToISOString(1704102300), type |-> "Bolus", amount |-> 25],
    [timestamp |-> ToISOString(1704102600), type |-> "TempBasal", rate |-> 5]>>

basicGlucoseHistory ==
  <<[date |-> 1704110700, glucose |-> 115, timestamp |-> ToISOString(1704103500)],
    [date |-> 1704110400, glucose |-> 120, timestamp |-> ToISOString(1704103200)],
    [date |-> 1704110100, glucose |-> 125, timestamp |-> ToISOString(1704102900)],
    [date |-> 1704109800, glucose |-> 130, timestamp |-> ToISOString(1704102600)],
    [date |-> 1704109500, glucose |-> 128, timestamp |-> ToISOString(1704102300)]>>

basicCarbHistory ==
  <<[timestamp |-> ToISOString(1704101400), carbs |-> 45, enteredBy |-> "patient"]>>

basicTempBasal ==
  [rate |-> 5, duration |-> 25, timestamp |-> ToISOString(1704102600)]

emergencyProfile ==
  [carb_ratio |-> 8, sens |-> 40, dia |-> 5, max_bg |-> 150, min_bg |-> 70,
   max_basal |-> 60, current_basal |-> 15, max_iob |-> 80]

\* date: Date.now() when the module is loaded
emergencyGlucoseHistory ==
  <<[date |-> StartTime, glucose |-> 250, timestamp |-> ToISOString(StartTime)]>>

\* the objects the templates hold when the process starts
InitialHeap ==
  [r \in Refs |->
     CASE r = Ref("basicPatient", "profile") -> basicProfile
       [] r = Ref("basicPatient", "glucose") -> basicGlucoseHistory
       [] r = Ref("basicPatient", "pump") -> basicPumpHistory
       [] r = Ref("basicPatient", "carbs") -> basicCarbHistory
       [] r = Ref("emergencyPatient", "profile") -> emergencyProfile
       [] r = Ref("emergencyPatient", "glucose") -> emergencyGlucoseHistory
       [] OTHER -> <<>>]

\* testCases[testCase]: its profile and initialData, as held objects
testCases(testCase) ==
  IF testCase = "basicPatient"
  THEN [profile |-> [ref |-> Ref("basicPatient", "profile")],
        initialData |-> [glucoseHistory |-> [ref |-> Ref("basicPatient", "glucose")],
                         pumpHistory |-> [ref |-> Ref("basicPatient", "pump")],
                         carbHistory |-> [ref |-> Ref("basicPatient", "carbs")],
                         currentTempBasal |-> basicTempBasal]]
  ELSE [profile |-> [ref |-> Ref("emergencyPatient", "profile")],
        initialData |-> [glucoseHistory |-> [ref |-> Ref("emergencyPatient", "glucose")]]]

----------------------------------------------------------------------------
(* Request bodies the clients send *)

OldKey == StartTime - (2 * HourSec)
EdgeKey == StartTime - HourSec
NewKey == StartTime
FutureKey == StartTime + (2 * WeekSec)

GlucoseReading(k) == [date |-> k, glucose |-> 100, timestamp |-> ToISOString(k)]
PumpEvent(k) == [timestamp |-> ToISOString(k), type |-> "Bolus", amount |-> 10]
CarbEntry(k) == [timestamp |-> ToISOString(k), carbs |-> 20]

Repeat(n, item) == [i \in 1..n |-> item]

GoodProfile ==
  [carb_ratio |-> 10, sens |-> 50, dia |-> 6, max_bg |-> 120, min_bg |-> 80,
   current_basal |-> 10]
LowRatioProfile == [GoodProfile EXCEPT !.carb_ratio = 2]
ZeroSensProfile == [GoodProfile EXCEPT !.sens = 0]
NoDiaProfile == [f \in (DOMAIN GoodProfile) \ {"dia"} |-> GoodProfile[f]]

Fresh(v) == [value |-> v]

NoData == <<>>
UnsortedGlucose ==
  [glucoseHistory |-> Fresh(<<GlucoseReading(OldKey), GlucoseReading(NewKey)>>)]
OneGlucose == [glucoseHistory |-> Fresh(<<GlucoseReading(NewKey)>>)]
OldGlucose == [glucoseHistory |-> Fresh(<<GlucoseReading(OldKey)>>)]
EdgeGlucose == [glucoseHistory |-> Fresh(<<GlucoseReading(EdgeKey)>>)]
FuturePump == [pumpHistory |-> Fresh(<<PumpEvent(FutureKey)>>)]
FutureGlucose == [glucoseHistory |-> Fresh(<<GlucoseReading(FutureKey)>>)]
MixedData ==
  [glucoseHistory |-> Fresh(<<GlucoseReading(EdgeKey)>>),
   pumpHistory |-> Fresh(<<PumpEvent(OldKey), PumpEvent(NewKey)>>),
   carbHistory |-> Fresh(<<CarbEntry(EdgeKey)>>),
   currentTempBasal |-> [rate |-> 5, duration |-> 30]]
LongGlucose(n) == [glucoseHistory |-> Fresh(Repeat(n, GlucoseReading(NewKey)))]

Defaults == <<>>
Hours == [historyRetentionPeriod |-> "hours"]
HoursNoCleanup == [historyRetentionPeriod |-> "hours", autoCleanup |-> FALSE]
HoursNegative == [historyRetentionPeriod |-> "hours", historyRetentionValue |-> 0 - 1]
HoursZero == [historyRetentionPeriod |-> "hours", historyRetentionValue |-> 0]
Fortnights == [historyRetentionPeriod |-> "fortnights"]

InitializeBody(profile, initialData, settings) ==
  [profile |-> profile, initialData |-> initialData, settings |-> settings]

CalculateBody(currentTime, newData, options) ==
  [currentTime |-> currentTime, newData |-> newData, options |-> options]

NewDataChoices ==
  {[glucoseReadings |-> <<GlucoseReading(k)>>] : k \in {OldKey, EdgeKey, NewKey}}
  \cup {[pumpEvents |-> <<PumpEvent(NewKey)>>],
        [carbEntries |-> <<CarbEntry(OldKey)>>]}

NoLogging == [enableLogging |-> FALSE]
OwnAutosens ==
  [enableLogging |-> FALSE, enableAutosens |-> FALSE, autosens |-> [ratio |-> 2]]
Override ==
  [enableLogging |-> FALSE, overrideProfile |-> [current_basal |-> 20],
   microbolus |-> TRUE]

\* what the collaborators and the file system do during one request
StringChunk(text) == [type |-> "string", data |-> text]
BufferChunk(text) == [type |-> "buffer", data |-> text]

Env(fault) == [fault |-> fault, writes |-> <<StringChunk("bg")>>]
EnvMixedWrites ==
  [fault |-> "none",
   writes |-> <<StringChunk("bg"), BufferChunk("raw"), StringChunk("rate")>>]
Faults == {"autosens", "iob", "meal", "decision_throw", "decision_error", "append"}

ScenarioEnv(fault, step) ==
  [fault |-> fault, writes |-> <<StringChunk("bg")>>, step |-> step]

T1 == Some(ToISOString(StartTime))
T2 == Some(ToISOString(StartTime + TickSec))

(***************************************************************************)
(* A behaviour draws its requests from one workload: ingest exercises the  *)
(* histories and the retention, pipeline the calculation stages and their  *)
(* failures, logs the calculation log and the session lifecycle, profiles  *)
(* the profiles a client may send, templates the built-in test cases,      *)
(* scenarios the scenario runs on sessions with past and future samples,   *)
(* windows the retention settings and the runs they leave without glucose. *)
(***************************************************************************)
Request(body, env) == [body |-> body, env |-> env]

Workloads ==
  [ingest |->
     [initialize |->
        {InitializeBody(None, NoData, Defaults),
         InitializeBody(Some(GoodProfile), NoData, Hours),
         InitializeBody(Some(GoodProfile), NoData, HoursNoCleanup),
         InitializeBody(Some(GoodProfile), NoData, HoursNegative),
         InitializeBody(Some(GoodProfile), UnsortedGlucose, Hours),
         InitializeBody(Some(GoodProfile), MixedData, HoursNoCleanup)},
      calculate |->
        {Request(CalculateBody(None, [glucoseReadings |-> <<GlucoseReading(NewKey)>>],
                               NoLogging), Env("none"))}
        \cup {Request(CalculateBody(T1, d, NoLogging), Env("none")) : d \in NewDataChoices},
      profileUpdates |-> {<<>>},
      testCases |-> {"unknownCase"},
      scenarios |-> {"unknown"},
      scenarioEnv |-> {ScenarioEnv("none", 1)}],
   pipeline |->
     [initialize |->
        {InitializeBody(None, NoData, Defaults),
         InitializeBody(Some(GoodProfile), NoData, Defaults),
         InitializeBody(Some(GoodProfile), MixedData, Defaults),
         InitializeBody(Some(LowRatioProfile), OneGlucose, Defaults),
         InitializeBody(Some(GoodProfile), LongGlucose(AutosensMinGlucose), Defaults),
         InitializeBody(Some(GoodProfile), LongGlucose(MealMinGlucose), Defaults)},
      calculate |->
        {Request(CalculateBody(None, <<>>, NoLogging), Env("none")),
         Request(CalculateBody(T1, <<>>, NoLogging), EnvMixedWrites),
         Request(CalculateBody(T2, <<>>, NoLogging), Env("none")),
         Request(CalculateBody(T1, <<>>, OwnAutosens), Env("none")),
         Request(CalculateBody(T1, <<>>, Override), Env("none"))}
        \cup {Request(CalculateBody(T1, <<>>, NoLogging), Env(f)) :
                f \in {"none"} \cup (Faults \ {"append"})},
      profileUpdates |-> {<<>>},
      testCases |-> {"unknownCase"},
      scenarios |-> {"basic", "unknown"},
      scenarioEnv |-> {ScenarioEnv("none", 1),
                       ScenarioEnv("decision_throw", BasicSteps)}],
   logs |->
     [initialize |->
        {InitializeBody(None, NoData, Defaults),
         InitializeBody(Some(GoodProfile), OneGlucose, Defaults),
         InitializeBody(Some(GoodProfile), MixedData, HoursNoCleanup)},
      calculate |->
        {Request(CalculateBody(None, [glucoseReadings |-> <<GlucoseReading(NewKey)>>],
                               <<>>), Env("none")),
         Request(CalculateBody(T1, <<>>, <<>>), Env("none")),
         Request(CalculateBody(T1, <<>>, <<>>), Env("append")),
         Request(CalculateBody(T1, <<>>, <<>>), Env("iob")),
         Request(CalculateBody(T1, <<>>, NoLogging), Env("none"))},
      profileUpdates |-> {[sens |-> 60]},
      testCases |-> {"emergencyPatient", "unknownCase"},
      scenarios |-> {"basic", "unknown"},
      scenarioEnv |-> {ScenarioEnv("none", 1)}],
   profiles |->
     [initialize |->
        {InitializeBody(None, NoData, Defaults),
         InitializeBody(Some(GoodProfile), OneGlucose, Defaults),
         InitializeBody(Some(LowRatioProfile), OneGlucose, Defaults),
         InitializeBody(Some(ZeroSensProfile), NoData, Defaults),
         InitializeBody(Some(NoDiaProfile), NoData, Defaults)},
      calculate |->
        {Request(CalculateBody(None, <<>>, <<>>), Env("none")),
         Request(CalculateBody(T1, <<>>, NoLogging), Env("none"))},
      profileUpdates |-> {[carb_ratio |-> 2], [sens |-> 60]},
      testCases |-> {"unknownCase"},
      scenarios |-> {"unknown"},
      scenarioEnv |-> {ScenarioEnv("none", 1)}],
   templates |->
     [initialize |->
        {InitializeBody(None, NoData, Defaults)},
      calculate |->
        {Request(CalculateBody(None, <<>>, <<>>), Env("none")),
         Request(CalculateBody(T1, <<>>, NoLogging), Env("none"))},
      profileUpdates |-> {[carb_ratio |-> 2]},
      testCases |-> {"basicPatient", "unknownCase"},
      scenarios |-> {"basic", "meal", "unknown"},
      scenarioEnv |-> {ScenarioEnv("none", 1)}],
   scenarios |->
     [initialize |->
        {InitializeBody(None, NoData, Defaults),
         InitializeBody(Some(GoodProfile), NoData, Defaults),
         InitializeBody(Some(GoodProfile), OldGlucose, Defaults),
         InitializeBody(Some(GoodProfile), FuturePump, Defaults),
         InitializeBody(Some(GoodProfile), FutureGlucose, Defaults)},
      calculate |->
        {Request(CalculateBody(None, <<>>, <<>>), Env("none")),
         Request(CalculateBody(T1, <<>>, NoLogging), Env("none"))},
      profileUpdates |-> {<<>>},
      testCases |-> {"basicPatient", "unknownCase"},
      scenarios |-> {"basic", "unknown"},
      scenarioEnv |-> {ScenarioEnv("none", 1),
                       ScenarioEnv("decision_throw", 2)}],
   windows |->
     [initialize |->
        {InitializeBody(None, NoData, Defaults),
         InitializeBody(Some(GoodProfile), OldGlucose, Hours),
         InitializeBody(Some(GoodProfile), EdgeGlucose, HoursZero),
         InitializeBody(Some(GoodProfile), OldGlucose, Fortnights)},
      calculate |->
        {Request(CalculateBody(None, <<>>, <<>>), Env("none")),
         Request(CalculateBody(T1, <<>>, NoLogging), Env("none")),
         Request(CalculateBody(T1, [pumpEvents |-> <<PumpEvent(NewKey)>>], <<>>),
                 Env("none"))},
      profileUpdates |-> {<<>>},
      testCases |-> {"unknownCase"},
      scenarios |-> {"unknown"},
      scenarioEnv |-> {ScenarioEnv("none", 1)}]]

----------------------------------------------------------------------------
(* The request handlers. Each returns the store, the log state and the     *)
(* response it leaves.                                                     *)

Response(op, id, status, body) ==
  [op |-> op, id |-> id, status |-> status, body |-> body]

\* the last request handled, with the response it got; found tells whether
\* the session was there when the request came in
Exchange(request, response, found) ==
  [op |-> response.op, id |-> response.id, request |-> request, found |-> found,
   status |-> response.status, body |-> response.body]

ErrorBody(message) == [error |-> message]

\* the error body of a calculate whose run was started, with the collaborator
\* calls the run had made when the request failed
RunErrorBody(message, calls) == [error |-> message, calls |-> calls]

\* variant: the settings of the session that is replaced are kept under the
\* supplied ones
initializeHandler_mergesSettings(st, id, profile, initialData, settings, clock) ==
  IF ~IsSome(profile)
  THEN [st |-> st,
        response |-> Response("initialize", id, 400, ErrorBody("Profile is required"))]
  ELSE [st |-> createPatient(st, id, Fresh(Get(profile)), initialData,
                             IF patientExists(st, id)
                             THEN Overlay(Patient(st, id).settings, settings)
                             ELSE settings, clock),
        response |-> Response("initialize", id, 201, [patientId |-> id])]

\* POST /patients/:patientId/initialize
initializeHandler(st, id, profile, initialData, settings, clock) ==
  IF ~IsSome(profile)
  THEN [st |-> st,
        response |-> Response("initialize", id, 400, ErrorBody("Profile is required"))]
  ELSE [st |-> createPatient(st, id, Fresh(Get(profile)), initialData, settings, clock),
        response |-> Response("initialize", id, 201, [patientId |-> id])]

\* options.enableLogging !== false
logging(options) == ~(Has(options, "enableLogging") /\ options.enableLogging = FALSE)

\* the response of a run that completed, after the log record was saved
calculateLogged(id, currentTime, run, saved) ==
  IF saved.threw
  THEN [st |-> run.st, map |-> saved.map, files |-> saved.files,
        response |-> Response("calculate", id, 500,
                              RunErrorBody("append failed", run.calls))]
  ELSE [st |-> run.st, map |-> saved.map, files |-> saved.files,
        response |->
          Response("calculate", id, 200,
            [timestamp |-> currentTime,
             suggestion |-> run.result.suggestion,
             iob |-> run.result.iob,
             meal |-> run.result.meal,
             glucose |-> run.result.glucoseStatus,
             autosens |-> run.result.autosens,
             stderrLog |-> run.result.stderrLog,
             calls |-> run.calls,
             forwarded |-> run.forwarded,
             logged |-> saved.name])]

\* what saveCalculationLog leaves when it is not called
notSaved(map, files) == [map |-> map, files |-> files, threw |-> FALSE, name |-> None]

\* a log record that went to the file `name`
savedTo(saved) == [saved EXCEPT !.name = Some(saved.name)]

\* variant: the log record of a run is saved whether the run completed or not
calculateRespond_logsFailures(map, files, id, currentTime, options, env, clock, run) ==
  IF run.threw
  THEN [st |-> run.st,
        map |-> IF logging(options)
                THEN saveCalculationLog(map, files, id, clock, FALSE).map ELSE map,
        files |-> IF logging(options)
                  THEN saveCalculationLog(map, files, id, clock, FALSE).files ELSE files,
        response |-> Response("calculate", id, 500, RunErrorBody(run.error, run.calls))]
  ELSE calculateLogged(id, currentTime, run,
         IF logging(options)
         THEN savedTo(saveCalculationLog(map, files, id, clock, env.fault = "append"))
         ELSE notSaved(map, files))

\* from the return of calculateBasalForPatient to the response
calculateRespond(map, files, id, currentTime, options, env, clock, run) ==
  IF run.threw
  THEN [st |-> run.st, map |-> map, files |-> files,
        response |-> Response("calculate", id, 500, RunErrorBody(run.error, run.calls))]
  ELSE calculateLogged(id, currentTime, run,
         IF logging(options)
         THEN savedTo(saveCalculationLog(map, files, id, clock, env.fault = "append"))
         ELSE notSaved(map, files))

\* variant: newData is ingested before currentTime is looked at
calculateHandler_ingestsFirst(st, map, files, id, currentTime, newData, options, env, clock) ==
  IF ~patientExists(st, id)
  THEN [st |-> st, map |-> map, files |-> files,
        response |-> Response("calculate", id, 404, ErrorBody("Patient not found"))]
  ELSE IF ~IsSome(currentTime)
  THEN [st |-> IF DOMAIN newData # {} THEN addNewData(st, id, newData, clock) ELSE st,
        map |-> map, files |-> files,
        response |-> Response("calculate", id, 400, ErrorBody("currentTime is required"))]
  ELSE calculateRespond(map, files, id, Get(currentTime), options, env, clock,
         calculateBasalForPatient(
           IF DOMAIN newData # {} THEN addNewData(st, id, newData, clock) ELSE st,
           id, Get(currentTime), options, env))

\* POST /patients/:patientId/calculate
calculateHandler(st, map, files, id, currentTime, newData, options, env, clock) ==
  IF ~patientExists(st, id)
  THEN [st |-> st, map |-> map, files |-> files,
        response |-> Response("calculate", id, 404, ErrorBody("Patient not found"))]
  ELSE IF ~IsSome(currentTime)
  THEN [st |-> st, map |-> map, files |-> files,
        response |-> Response("calculate", id, 400, ErrorBody("currentTime is required"))]
  ELSE calculateRespond(map, files, id, Get(currentTime), options, env, clock,
         calculateBasalForPatient(
           IF DOMAIN newData # {} THEN addNewData(st, id, newData, clock) ELSE st,
           id, Get(currentTime), options, env))

\* PATCH /patients/:patientId/profile
patchProfileHandler(st, id, profileUpdates, clock) ==
  IF ~patientExists(st, id)
  THEN [st |-> st,
        response |-> Response("patchProfile", id, 404, ErrorBody("Patient not found"))]
  ELSE [st |-> touch(SetHeap(st, Patient(st, id).profile,
                             Overlay(ProfileOf(st, id), profileUpdates)), id, clock),
        response |-> Response("patchProfile", id, 200,
                       [updatedFields |-> DOMAIN profileUpdates,
                        profile |-> Overlay(ProfileOf(st, id), profileUpdates)])]

\* variant: the delete also forgets the log file name of the id
deleteHandler_dropsBinding(st, map, id) ==
  IF ~patientExists(st, id)
  THEN [st |-> st, map |-> map,
        response |-> Response("delete", id, 404, ErrorBody("Patient not found"))]
  ELSE [st |-> deletePatient(st, id), map |-> [map EXCEPT ![id] = None],
        response |-> Response("delete", id, 200, [patientId |-> id])]

\* DELETE /patients/:patientId
\* the handler has no statement that touches logFileMap or the logs directory
deleteHandler(st, map, id) ==
  IF ~patientExists(st, id)
  THEN [st |-> st, map |-> map,
        response |-> Response("delete", id, 404, ErrorBody("Patient not found"))]
  ELSE [st |-> deletePatient(st, id), map |-> map,
        response |-> Response("delete", id, 200, [patientId |-> id])]

\* POST /test/patients/:testCase
createTestPatientHandler(st, testCase, id, clock) ==
  IF testCase \notin TestCaseNames
  THEN [st |-> st,
        response |-> Response("createTestPatient", id, 400, ErrorBody("Invalid test case"))]
  ELSE [st |-> createPatient(st, id, testCases(testCase).profile,
                             testCases(testCase).initialData, <<>>, clock),
        response |-> Response("createTestPatient", id, 201, [testCase |-> testCase])]

----------------------------------------------------------------------------
(* POST /test/scenario/:patientId *)

Scenarios ==
  [basic |-> [carbsFirst |-> FALSE, steps |-> BasicSteps, spacing |-> BasicSpacingSec,
              start |-> BasicStartGlucose, delta |-> 0 - BasicDecrement],
   meal |-> [carbsFirst |-> TRUE, steps |-> MealSteps, spacing |-> MealSpacingSec,
             start |-> MealStartGlucose, delta |-> MealIncrement]]

\* the collaborators fail, if at all, in the step env.step
EnvAt(env, step) ==
  [fault |-> IF env.step = step THEN env.fault ELSE "none", writes |-> env.writes]

\* variant: every step reads the starting glucose value
scenarioReading_noDecrement(sc, i, baseTime) ==
  [date |-> ParseDate(ToISOString(baseTime + (i * sc.spacing))),
   glucose |-> sc.start,
   timestamp |-> ToISOString(baseTime + (i * sc.spacing))]

\* the reading step i of a scenario ingests
scenarioReading(sc, i, baseTime) ==
  [date |-> ParseDate(ToISOString(baseTime + (i * sc.spacing))),
   glucose |-> sc.start + (i * sc.delta),
   timestamp |-> ToISOString(baseTime + (i * sc.spacing))]

RECURSIVE scenarioLoop(_, _, _, _, _, _, _)

\* from the return of calculateBasalForPatient in step i to the end of the loop
scenarioNext(id, sc, i, results, baseTime, env, reading, run) ==
  IF run.threw
  THEN [threw |-> TRUE, st |-> run.st, results |-> results, error |-> run.error]
  ELSE scenarioLoop(run.st, id, sc, i + 1,
         Append(results, [step |-> i + 1, time |-> reading.timestamp,
                          glucose |-> reading.glucose,
                          suggestion |-> run.result.suggestion]),
         baseTime, env)

scenarioLoop(st, id, sc, i, results, baseTime, env) ==
  IF i >= sc.steps THEN [threw |-> FALSE, st |-> st, results |-> results, error |-> ""]
  ELSE scenarioNext(id, sc, i, results, baseTime, env, scenarioReading(sc, i, baseTime),
         calculateBasalForPatient(
           addNewData(st, id, [glucoseReadings |-> <<scenarioReading(sc, i, baseTime)>>],
                      baseTime),
           id, scenarioReading(sc, i, baseTime).timestamp, <<>>, EnvAt(env, i + 1)))

\* from the end of the loop to the response
scenarioRespond(id, scenario, run) ==
  IF run.threw
  THEN [st |-> run.st,
        response |-> Response("scenario", id, 500, ErrorBody(run.error))]
  ELSE [st |-> run.st,
        response |->
          Response("scenario", id, 200,
            [scenario |-> scenario,
             results |-> run.results,
             summary |-> [steps |-> Len(run.results),
                          finalGlucose |-> run.results[Len(run.results)].glucose,
                          finalBasalRate |->
                            Opt(run.results[Len(run.results)].suggestion, "rate")]])]

scenarioHandler(st, id, scenario, env, clock) ==
  IF ~patientExists(st, id)
  THEN [st |-> st,
        response |-> Response("scenario", id, 404, ErrorBody("Test patient not found"))]
  ELSE IF scenario \notin DOMAIN Scenarios
  THEN [st |-> st,
        response |-> Response("scenario", id, 400, ErrorBody("Unknown scenario type"))]
  ELSE scenarioRespond(id, scenario,
         scenarioLoop(
           IF Scenarios[scenario].carbsFirst
           THEN addNewData(st, id,
                  [carbEntries |-> <<[timestamp |-> ToISOString(clock),
                                      carbs |-> MealCarbs,
                                      enteredBy |-> "test"]>>], clock)
           ELSE st,
           id, Scenarios[scenario], 0, <<>>, clock, env))

----------------------------------------------------------------------------
(* The state machine *)

NoPatients == [id \in PatientIds |-> None]
NoBindings == [id \in PatientIds |-> None]
NoFiles == [name \in LogNames |-> FALSE]

\* what a handler finds when it looks at the process state
Seen(st, map, files) == [st |-> st, map |-> map, files |-> files]

\* the event loop of the process: the requests whose callbacks wait to be
\* called, the handlers that were called and have not responded, how many
\* requests came in, the order they were answered in, and what the last
\* handler that responded left behind (None before the first response)
IdleLoop ==
  [queue |-> <<>>, frames |-> <<>>, arrived |-> 0, served |-> <<>>, left |-> None]

\* a log file a previous process left behind may be there at start
InitWith(names) ==
  /\ workload \in names
  /\ patients = NoPatients
  /\ heap = InitialHeap
  /\ logFileMap = NoBindings
  /\ logFiles \in {NoFiles} \cup
                  {[NoFiles EXCEPT ![LogName(id, None)] = TRUE] : id \in PatientIds}
  /\ stderrWrite = "original"
  /\ now = StartTime
  /\ last = Exchange(<<>>, Response("start", "", 0, <<>>), FALSE)
  /\ loop = IdleLoop

Init == InitWith(DOMAIN Workloads)

Current == Store(patients, heap, stderrWrite)

ItemCount(st, id) ==
  Len(HistoryOf(st, id, "glucose")) + Len(HistoryOf(st, id, "pump"))
    + Len(HistoryOf(st, id, "carbs"))

Pushed(newData) ==
  (IF Has(newData, "glucoseReadings") THEN Len(newData.glucoseReadings) ELSE 0)
  + (IF Has(newData, "pumpEvents") THEN Len(newData.pumpEvents) ELSE 0)
  + (IF Has(newData, "carbEntries") THEN Len(newData.carbEntries) ELSE 0)

\* a request that pushes items leaves the session with at most MaxItems
IngestRoom(after, id, newData) ==
  (patientExists(after, id) /\ Pushed(newData) > 0) =>
     ItemCount(after, id) <= MaxItems

\* a scenario starts on a session whose samples are older than the wall
\* clock, or lie beyond the time the scenario spans, and whose arrays hold
\* at most MaxScenarioLen samples and fewer than MaxItems carb entries
ScenarioRoom(st, id, clock) ==
  patientExists(st, id) =>
     /\ Len(HistoryOf(st, id, "glucose")) <= MaxScenarioLen
     /\ Len(HistoryOf(st, id, "carbs")) < MaxItems
     /\ newestTimeOf(st, id) < clock \/ newestTimeOf(st, id) >= FutureKey

Initialize(id, body) ==
  \E r \in {initializeHandler(Current, id, body.profile, body.initialData,
                              body.settings, now)} :
     /\ patients' = r.st.patients
     /\ heap' = r.st.heap
     /\ last' = Exchange(body, r.response, patientExists(Current, id))
     /\ UNCHANGED <<workload, loop, logFileMap, logFiles, stderrWrite, now>>

Calculate(id, body, env) ==
  /\ \E r \in {calculateHandler(Current, logFileMap, logFiles, id, body.currentTime,
                                body.newData, body.options, env, now)} :
       /\ IsSome(body.currentTime) => IngestRoom(r.st, id, body.newData)
       /\ patients' = r.st.patients
       /\ heap' = r.st.heap
       /\ logFileMap' = r.map
       /\ logFiles' = r.files
       /\ stderrWrite' = r.st.write
       /\ last' = Exchange(Request(body, env), r.response, patientExists(Current, id))
       /\ UNCHANGED <<workload, loop, now>>

PatchProfile(id, profileUpdates) ==
  \E r \in {patchProfileHandler(Current, id, profileUpdates, now)} :
     /\ patients' = r.st.patients
     /\ heap' = r.st.heap
     /\ last' = Exchange(profileUpdates, r.response, patientExists(Current, id))
     /\ UNCHANGED <<workload, loop, logFileMap, logFiles, stderrWrite, now>>

Delete(id) ==
  \E r \in {deleteHandler(Current, logFileMap, id)} :
     /\ patients' = r.st.patients
     /\ heap' = r.st.heap
     /\ logFileMap' = r.map
     /\ last' = Exchange(<<>>, r.response, patientExists(Current, id))
     /\ UNCHANGED <<workload, loop, logFiles, stderrWrite, now>>

CreateTestPatient(testCase, id) ==
  \E r \in {createTestPatientHandler(Current, testCase, id, now)} :
     /\ patients' = r.st.patients
     /\ heap' = r.st.heap
     /\ last' = Exchange([testCase |-> testCase], r.response, patientExists(Current, id))
     /\ UNCHANGED <<workload, loop, logFileMap, logFiles, stderrWrite, now>>

RunScenario(id, scenario, env) ==
  /\ ScenarioRoom(Current, id, now)
  /\ \E r \in {scenarioHandler(Current, id, scenario, env, now)} :
       /\ patients' = r.st.patients
       /\ heap' = r.st.heap
       /\ stderrWrite' = r.st.write
       /\ last' = Exchange([scenario |-> scenario, env |-> env], r.response,
                          patientExists(Current, id))
       /\ UNCHANGED <<workload, loop, logFileMap, logFiles, now>>

\* the wall clock advances
Tick ==
  /\ now < StartTime + (MaxTicks * TickSec)
  /\ now' = now + TickSec
  /\ UNCHANGED <<workload, loop, patients, heap, logFileMap, logFiles, stderrWrite, last>>

\* the logs directory is changed from outside the process
FileAppears(id) ==
  /\ ~fileExists(logFiles, LogName(id, None))
  /\ logFiles' = appendFileSync(logFiles, LogName(id, None))
  /\ UNCHANGED <<workload, loop, patients, heap, logFileMap, stderrWrite, now, last>>

FileDisappears(id) ==
  /\ fileExists(logFiles, LogName(id, None))
  /\ logFiles' = [logFiles EXCEPT ![LogName(id, None)] = FALSE]
  /\ UNCHANGED <<workload, loop, patients, heap, logFileMap, stderrWrite, now, last>>

Next ==
  \/ \E id \in PatientIds, body \in Workloads[workload].initialize :
       Initialize(id, body)
  \/ \E id \in PatientIds, request \in Workloads[workload].calculate :
       Calculate(id, request.body, request.env)
  \/ \E id \in PatientIds, profileUpdates \in Workloads[workload].profileUpdates :
       PatchProfile(id, profileUpdates)
  \/ \E id \in PatientIds : Delete(id)
  \/ \E testCase \in Workloads[workload].testCases, id \in PatientIds :
       CreateTestPatient(testCase, id)
  \/ \E id \in PatientIds, scenario \in Workloads[workload].scenarios,
        env \in Workloads[workload].scenarioEnv :
       RunScenario(id, scenario, env)
  \/ Tick
  \/ \E id \in PatientIds : FileAppears(id)
  \/ \E id \in PatientIds : FileDisappears(id)

Spec == Init /\ [][Next]_vars

\* the specifications of the single workloads
SpecIngest == InitWith({"ingest"}) /\ [][Next]_vars
SpecPipeline == InitWith({"pipeline"}) /\ [][Next]_vars
SpecLogs == InitWith({"logs"}) /\ [][Next]_vars
SpecProfiles == InitWith({"profiles"}) /\ [][Next]_vars
SpecTemplates == InitWith({"templates"}) /\ [][Next]_vars
SpecScenarios == InitWith({"scenarios"}) /\ [][Next]_vars
SpecWindows == InitWith({"windows"}) /\ [][Next]_vars

----------------------------------------------------------------------------
(* Steps and observations used by the properties *)

----------------------------------------------------------------------------
(* The event loop. A request joins the queue when express has parsed its   *)
(* body; node calls one route callback at a time, and the next one only    *)
(* when the call stack is empty. Here a handler is followed from statement *)
(* group to statement group: the checks and the ingest, the input stages   *)
(* up to the installation of the stderr wrapper, the return of the         *)
(* decision call with the restore and the caching, the log record and the  *)
(* response.                                                               *)

\* variant: the handler awaits the ingest
YieldsAt_afterIngest(pc) == pc = "ingested"

\* the positions at which a handler hands control back to the event loop
\* before it has responded: the handlers hold no await, no callback and no
\* timer, and the log is appended with appendFileSync
YieldsAt(pc) == FALSE

LoopRequest(op, body, env) == [op |-> op, id |-> "p1", body |-> body, env |-> env]

LoopRequests ==
  {LoopRequest("initialize",
               InitializeBody(Some(GoodProfile), OneGlucose, Defaults), Env("none")),
   LoopRequest("calculate",
               CalculateBody(T1, [glucoseReadings |-> <<GlucoseReading(EdgeKey)>>], <<>>),
               Env("none")),
   LoopRequest("calculate", CalculateBody(T1, <<>>, NoLogging), Env("decision_throw"))}

\* the call of the route callback of a queued request
Frame(entry, seen) ==
  [n |-> entry.n, request |-> entry.request, pc |-> "start", parked |-> FALSE,
   at |-> seen, originalWrite |-> "", run |-> <<>>]

WithLogs(r, map, files) ==
  [st |-> r.st, map |-> map, files |-> files, response |-> r.response]

\* the handler of a request, from its first statement to its response
handleRequest(request, seen, clock) ==
  IF request.op = "initialize"
  THEN WithLogs(initializeHandler(seen.st, request.id, request.body.profile,
                                  request.body.initialData, request.body.settings,
                                  clock),
                seen.map, seen.files)
  ELSE calculateHandler(seen.st, seen.map, seen.files, request.id,
                        request.body.currentTime, request.body.newData,
                        request.body.options, request.env, clock)

\* the handler responded
Responded(f, r) ==
  [seen |-> Seen(r.st, r.map, r.files), frame |-> f, done |-> TRUE,
   response |-> r.response]

\* the handler goes on at pc
Continues(f, pc, st, map, files) ==
  [seen |-> Seen(st, map, files),
   frame |-> [f EXCEPT !.pc = pc, !.parked = YieldsAt(pc)],
   done |-> FALSE, response |-> <<>>]

\* initialize as a whole, and calculate up to the return of addNewData
stepStart(f, seen, clock) ==
  IF \/ f.request.op = "initialize"
     \/ ~patientExists(seen.st, f.request.id)
     \/ ~IsSome(f.request.body.currentTime)
  THEN Responded(f, handleRequest(f.request, seen, clock))
  ELSE Continues(f, "ingested",
         IF DOMAIN f.request.body.newData # {}
         THEN addNewData(seen.st, f.request.id, f.request.body.newData, clock)
         ELSE seen.st,
         seen.map, seen.files)

\* calculateBasalForPatient up to the call of determine_basal, with the
\* stderr wrapper installed; run is what the whole run comes to
stepIngested(f, seen, clock, run) ==
  IF run.threw /\ run.error # "determine_basal failed"
  THEN Responded(f, calculateRespond(seen.map, seen.files, f.request.id,
                                     Get(f.request.body.currentTime),
                                     f.request.body.options, f.request.env, clock, run))
  ELSE Continues([f EXCEPT !.run = run, !.originalWrite = seen.st.write],
                 "deciding", SetWrite(seen.st, "wrapper"), seen.map, seen.files)

\* determine_basal returns or throws: the writer is put back and the
\* results are cached
stepDeciding(f, seen, clock, cached) ==
  IF f.run.threw
  THEN Responded(f, calculateRespond(seen.map, seen.files, f.request.id,
                                     Get(f.request.body.currentTime),
                                     f.request.body.options, f.request.env, clock,
                                     [f.run EXCEPT !.st = SetWrite(seen.st, f.originalWrite)]))
  ELSE Continues(f, "decided",
         cacheResults(SetWrite(seen.st, f.originalWrite), f.request.id,
                      Get(cached.cachedIOB), Get(cached.cachedMeal),
                      Get(cached.lastCalculation)),
         seen.map, seen.files)

\* the log record and the response
stepDecided(f, seen, clock) ==
  Responded(f, calculateRespond(seen.map, seen.files, f.request.id,
                                Get(f.request.body.currentTime),
                                f.request.body.options, f.request.env, clock,
                                [f.run EXCEPT !.st = seen.st]))

handlerStep(f, seen, clock) ==
  CASE f.pc = "start" -> stepStart(f, seen, clock)
    [] f.pc = "ingested" ->
         stepIngested(f, seen, clock,
           calculateBasalForPatient(seen.st, f.request.id,
                                    Get(f.request.body.currentTime),
                                    f.request.body.options, f.request.env))
    [] f.pc = "deciding" ->
         stepDeciding(f, seen, clock,
           IF f.run.threw THEN <<>>
           ELSE Patient(f.run.st, f.request.id).currentState)
    [] OTHER -> stepDecided(f, seen, clock)

CurrentlySeen == Seen(Current, logFileMap, logFiles)

\* no callback is running
StackEmpty == \A i \in 1..Len(loop.frames) : loop.frames[i].parked

Remove(frames, i) == SubSeq(frames, 1, i - 1) \o SubSeq(frames, i + 1, Len(frames))

\* express has parsed the body of a request
Arrive(request) ==
  /\ loop.arrived < MaxArrivals
  /\ loop' = [loop EXCEPT !.arrived = @ + 1,
                          !.queue = Append(@, [n |-> loop.arrived + 1,
                                               request |-> request])]
  /\ UNCHANGED <<workload, patients, heap, logFileMap, logFiles, stderrWrite, now, last>>

\* node calls the callback of the request that waited longest
Dispatch ==
  /\ StackEmpty
  /\ loop.queue # <<>>
  /\ (/\ Head(loop.queue).request.op = "calculate"
      /\ IsSome(Head(loop.queue).request.body.currentTime)) =>
       IngestRoom(handleRequest(Head(loop.queue).request, CurrentlySeen, now).st,
                  Head(loop.queue).request.id,
                  Head(loop.queue).request.body.newData)
  /\ loop' = [loop EXCEPT !.queue = Tail(@),
                          !.frames = Append(@, Frame(Head(loop.queue), CurrentlySeen))]
  /\ UNCHANGED <<workload, patients, heap, logFileMap, logFiles, stderrWrite, now, last>>

\* the handler i runs to its next position
Advance(i) ==
  /\ ~loop.frames[i].parked \/ StackEmpty
  /\ \E r \in {handlerStep(loop.frames[i], CurrentlySeen, now)} :
       /\ patients' = r.seen.st.patients
       /\ heap' = r.seen.st.heap
       /\ stderrWrite' = r.seen.st.write
       /\ logFileMap' = r.seen.map
       /\ logFiles' = r.seen.files
       /\ IF r.done
          THEN /\ loop' = [loop EXCEPT !.frames = Remove(@, i),
                                       !.served = Append(@, r.frame.n),
                                       !.left = Some(r.seen)]
               /\ last' = Exchange(r.frame.request, r.response,
                                   patientExists(r.frame.at.st, r.frame.request.id))
          ELSE /\ loop' = [loop EXCEPT !.frames[i] = r.frame]
               /\ last' = last
  /\ UNCHANGED <<workload, now>>

NextLoop ==
  \/ \E request \in LoopRequests : Arrive(request)
  \/ Dispatch
  \/ \E i \in 1..Len(loop.frames) : Advance(i)

SpecEventLoop == InitWith({"eventloop"}) /\ [][NextLoop]_vars

Next2 == Store(patients', heap', stderrWrite')

\* the step handles the calculate request that last' records
CalculateStep(id) ==
  /\ last'.op = "calculate"
  /\ last'.id = id
  /\ Calculate(id, last'.request.body, last'.request.env)

InitializeStep(id) ==
  /\ last'.op = "initialize"
  /\ last'.id = id
  /\ Initialize(id, last'.request)

DeleteStep(id) ==
  /\ last'.op = "delete"
  /\ last'.id = id
  /\ Delete(id)

CreateTestPatientStep(id) ==
  /\ last'.op = "createTestPatient"
  /\ last'.id = id
  /\ CreateTestPatient(last'.request.testCase, id)

ScenarioStep(id) ==
  /\ last'.op = "scenario"
  /\ last'.id = id
  /\ RunScenario(id, last'.request.scenario, last'.request.env)

\* the calculate step ingested newData (it passed the 404 and 400 checks)
IngestStep(id) ==
  /\ CalculateStep(id)
  /\ patientExists(Current, id)
  /\ IsSome(last'.request.body.currentTime)
  /\ DOMAIN last'.request.body.newData # {}

PushedTo(newData, stream) ==
  LET field == CASE stream = "glucose" -> "glucoseReadings"
                 [] stream = "pump" -> "pumpEvents"
                 [] OTHER -> "carbEntries"
  IN IF Has(newData, field) THEN newData[field] ELSE <<>>

\* how many items of arr carry the key k
KeyCount(stream, arr, k) ==
  Cardinality({i \in 1..Len(arr) : KeyOf(stream, arr[i]) = k})

AllKeys(st, id) == UNION {Keys(s, HistoryOf(st, id, s)) : s \in StreamNames}

\* the keys a stream holds between the push and the cleanup of an ingest
PreCount(id, stream, k) ==
  KeyCount(stream, HistoryOf(Current, id, stream), k)
    + KeyCount(stream, PushedTo(last'.request.body.newData, stream), k)
PreKeys(id) ==
  AllKeys(Current, id)
    \cup UNION {Keys(s, PushedTo(last'.request.body.newData, s)) : s \in StreamNames}

\* the ingest step ran a cleanup pass over a non-empty history
CleanupStep(id) ==
  /\ IngestStep(id)
  /\ Patient(Current, id).settings.autoCleanup
  /\ PreKeys(id) # {}

IsSorted(stream, arr) ==
  \A i \in 1..(Len(arr) - 1) : KeyOf(stream, arr[i]) >= KeyOf(stream, arr[i + 1])

----------------------------------------------------------------------------
(* C1: in every state, each of the three history streams of every session  *)
(* is sorted newest first (non-increasing) by its ordering key: glucose by *)
(* date, pump and carbs by the parsed timestamp.                           *)
C1_HistorySorted ==
  \A id \in PatientIds :
    patientExists(Current, id) =>
      \A s \in StreamNames : IsSorted(s, HistoryOf(Current, id, s))

\* an ingest pushed an item newer than the one the stream held, and the
\* re-sort moved it to the front
C1_Witness ==
  \E id \in PatientIds, s \in StreamNames :
    /\ last.op = "calculate" /\ last.id = id /\ last.status = 200
    /\ Len(PushedTo(last.request.body.newData, s)) = 1
    /\ patientExists(Current, id)
    /\ Len(HistoryOf(Current, id, s)) = 2
    /\ KeyOf(s, HistoryOf(Current, id, s)[1])
         = KeyOf(s, PushedTo(last.request.body.newData, s)[1])
    /\ KeyOf(s, HistoryOf(Current, id, s)[1]) > KeyOf(s, HistoryOf(Current, id, s)[2])

(* C2: a cleanup pass on a session whose newest key is T and whose         *)
(* retention window is W keeps exactly the items with key >= T - W: every  *)
(* item that remains has key >= T - W, and every item that went had        *)
(* key < T - W.                                                            *)
C2_Retention ==
  [][\A id \in PatientIds :
       CleanupStep(id) =>
         LET T == SetMax(PreKeys(id))
             W == T - cutoffTime(T, Patient(Current, id).settings)
         IN \A s \in StreamNames :
              /\ \A k \in Keys(s, HistoryOf(Next2, id, s)) : k >= T - W
              /\ \A k \in PreKeys(id) :
                   /\ k >= T - W =>
                        KeyCount(s, HistoryOf(Next2, id, s), k) = PreCount(id, s, k)
                   /\ KeyCount(s, HistoryOf(Next2, id, s), k) # PreCount(id, s, k)
                        => k < T - W]_vars

\* a backdated reading was pushed and went, while the item whose key is
\* exactly T - W stayed
C2_Witness ==
  \E id \in PatientIds :
    /\ last.op = "calculate" /\ last.id = id /\ last.status = 200
    /\ patientExists(Current, id)
    /\ Patient(Current, id).settings.autoCleanup
    /\ Len(PushedTo(last.request.body.newData, "glucose")) = 1
    /\ LET T == SetMax(AllKeys(Current, id) \cup {0})
           cutoff == cutoffTime(T, Patient(Current, id).settings)
           pushed == KeyOf("glucose", PushedTo(last.request.body.newData, "glucose")[1])
       IN /\ pushed < cutoff
          /\ pushed \notin Keys("glucose", HistoryOf(Current, id, "glucose"))
          /\ cutoff \in AllKeys(Current, id)
          /\ cutoff < T

(* C3: the cutoff of a cleanup pass comes from the one maximum key over    *)
(* the glucose, pump and carb streams together and not from the wall       *)
(* clock: the histories an ingest leaves are the same at every wall-clock  *)
(* time, each stream keeps the keys at or above that common cutoff, and an *)
(* ingest of backdated items only leaves the cutoff where it was.          *)
C3_CutoffFromNewestKey ==
  [][\A id \in PatientIds :
       CleanupStep(id) =>
         LET newData == last'.request.body.newData
             cutoff == cutoffTime(SetMax(PreKeys(id)), Patient(Current, id).settings)
             before == cutoffTime(newestTimeOf(Current, id), Patient(Current, id).settings)
             backdated == /\ AllKeys(Current, id) # {}
                          /\ \A s \in StreamNames :
                               \A k \in Keys(s, PushedTo(newData, s)) :
                                 k <= newestTimeOf(Current, id)
         IN /\ \A c \in ClockValues, s \in StreamNames :
                 HistoryOf(addNewData(Current, id, newData, c), id, s)
                   = HistoryOf(Next2, id, s)
            /\ \A s \in StreamNames :
                 Keys(s, HistoryOf(Next2, id, s))
                   = {k \in Keys(s, HistoryOf(Current, id, s))
                              \cup Keys(s, PushedTo(newData, s)) : k >= cutoff}
            /\ backdated => cutoff = before]_vars

\* a backdated glucose reading went although the glucose stream alone would
\* have kept it, because the pump stream holds a newer event
C3_Witness ==
  \E id \in PatientIds :
    /\ last.op = "calculate" /\ last.id = id /\ last.status = 200
    /\ patientExists(Current, id)
    /\ Patient(Current, id).settings.autoCleanup
    /\ Len(PushedTo(last.request.body.newData, "glucose")) = 1
    /\ HistoryOf(Current, id, "glucose") # <<>>
    /\ HistoryOf(Current, id, "pump") # <<>>
    /\ LET pushed == KeyOf("glucose", PushedTo(last.request.body.newData, "glucose")[1])
           settings == Patient(Current, id).settings
       IN /\ pushed \notin Keys("glucose", HistoryOf(Current, id, "glucose"))
          /\ pushed < cutoffTime(KeyOf("pump", HistoryOf(Current, id, "pump")[1]), settings)
          /\ pushed >= cutoffTime(KeyOf("glucose", HistoryOf(Current, id, "glucose")[1]),
                                  settings)

----------------------------------------------------------------------------
(* Observations of the cached results *)

CacheFields == {"cachedIOB", "cachedMeal", "lastCalculation"}
CachesOf(st, id) == [f \in CacheFields |-> Patient(st, id).currentState[f]]
NoCaches == [f \in CacheFields |-> None]
AllCached(caches) == \A f \in CacheFields : IsSome(caches[f])

\* the messages of the failures of the pipeline stages
StageErrors ==
  {"autosens failed", "iob failed", "meal failed",
   "No glucose data available for calculation", "determine_basal failed"}

\* what a completed run caches, read off the response it produced
CachesFrom(body) ==
  [cachedIOB |-> Some(<<body.iob>>),
   cachedMeal |-> Some(body.meal),
   lastCalculation |-> Some([timestamp |-> body.timestamp,
                             suggestion |-> body.suggestion,
                             stderrLog |-> body.stderrLog])]

(* C4: the three cached results of a session are all null or all set; a    *)
(* calculate that succeeds sets them together to the IOB sequence, the     *)
(* meal result and the {timestamp, suggestion, diagnostic text} of that    *)
(* run; a calculate that fails at a stage (autosens, IOB, meal, glucose    *)
(* status, decision) or is refused leaves them as they were; initialize    *)
(* sets them to null; a scenario leaves those of its last completed step.  *)
C4_CachesAtomic ==
  [][\A id \in PatientIds :
       /\ patientExists(Next2, id) =>
            \/ CachesOf(Next2, id) = NoCaches
            \/ AllCached(CachesOf(Next2, id))
       /\ (CalculateStep(id) /\ patientExists(Current, id)) =>
            CASE last'.status = 200 -> CachesOf(Next2, id) = CachesFrom(last'.body)
              [] last'.status = 500 /\ last'.body.error \in StageErrors ->
                   CachesOf(Next2, id) = CachesOf(Current, id)
              [] last'.status = 400 -> CachesOf(Next2, id) = CachesOf(Current, id)
              [] OTHER -> TRUE
       /\ ((InitializeStep(id) \/ CreateTestPatientStep(id)) /\ last'.status = 201) =>
            CachesOf(Next2, id) = NoCaches
       /\ (ScenarioStep(id) /\ last'.status = 200) =>
            LET final == last'.body.results[Len(last'.body.results)]
                cached == Get(CachesOf(Next2, id).lastCalculation)
            IN /\ AllCached(CachesOf(Next2, id))
               /\ cached.timestamp = final.time
               /\ cached.suggestion = final.suggestion]_vars

\* a calculate failed at a stage on a session that holds the results of an
\* earlier completed run
C4_Witness ==
  \E id \in PatientIds :
    /\ last.op = "calculate" /\ last.id = id /\ last.status = 500
    /\ last.body.error \in {"iob failed", "meal failed", "determine_basal failed"}
    /\ patientExists(Current, id)
    /\ AllCached(CachesOf(Current, id))

(* C5: when the decision collaborator returns a result with an error       *)
(* field, the calculate fails as a whole: no 200 response carries such a   *)
(* result as its suggestion, and no session caches it as its last          *)
(* calculation.                                                            *)
C5_DecisionErrorFailsRequest ==
  \A id \in PatientIds :
    /\ (last.op = "calculate" /\ last.id = id /\ last.status = 200) =>
         ~Has(last.body.suggestion, "error")
    /\ (patientExists(Current, id)
          /\ IsSome(Patient(Current, id).currentState.lastCalculation)) =>
         ~Has(Get(Patient(Current, id).currentState.lastCalculation).suggestion, "error")

(* C6: an initialize whose profile has a carb ratio below 3, a sensitivity *)
(* of 0 or less, or lacks a required field is answered 400 and creates or  *)
(* replaces no session.                                                    *)
RequiredProfileFields ==
  {"carb_ratio", "sens", "dia", "min_bg", "max_bg", "current_basal"}

ValidProfile(profile) ==
  /\ RequiredProfileFields \subseteq DOMAIN profile
  /\ profile.carb_ratio >= 3
  /\ profile.sens > 0

C6_InitializeValidates ==
  [][\A id \in PatientIds :
       (/\ InitializeStep(id)
        /\ IsSome(last'.request.profile)
        /\ ~ValidProfile(Get(last'.request.profile))) =>
         /\ last'.status = 400
         /\ patients' = patients
         /\ heap' = heap]_vars

(* C7: the log file name of a session id is bound once, by the first       *)
(* append for the id: the canonical name if no file of that name is there  *)
(* at that moment, a time-suffixed name otherwise; the binding never       *)
(* changes afterwards, and every logged calculate writes to the bound      *)
(* name, whatever happens to the canonical file in between.                *)
C7_LogNameBoundOnce ==
  [][\A id \in PatientIds :
       /\ IsSome(logFileMap[id]) => logFileMap'[id] = logFileMap[id]
       /\ (~IsSome(logFileMap[id]) /\ IsSome(logFileMap'[id])) =>
            /\ CalculateStep(id)
            /\ Get(logFileMap'[id]) =
                 IF logFiles[LogName(id, None)] THEN LogName(id, Some(now))
                 ELSE LogName(id, None)
       /\ (CalculateStep(id) /\ last'.status = 200 /\ IsSome(last'.body.logged)) =>
            /\ last'.body.logged = logFileMap'[id]
            /\ logFiles'[Get(last'.body.logged)]
            /\ \A name \in LogNames :
                 name # Get(last'.body.logged) => logFiles'[name] = logFiles[name]]_vars

\* a calculate on a session created after the name was bound wrote to the
\* time-suffixed name bound earlier, while the canonical file is not there
C7_Witness ==
  \E id \in PatientIds, t \in ClockValues :
    /\ logFileMap[id] = Some(LogName(id, Some(t)))
    /\ patientExists(Current, id)
    /\ ParseDate(Patient(Current, id).createdAt) > t
    /\ last.op = "calculate" /\ last.id = id /\ last.status = 200
    /\ last.body.logged = logFileMap[id]
    /\ ~logFiles[LogName(id, None)]

\* the items of a stream of initialData, [] when the field is not there
InitialStream(initialData, stream) ==
  LET field == CASE stream = "glucose" -> "glucoseHistory"
                 [] stream = "pump" -> "pumpHistory"
                 [] OTHER -> "carbHistory"
  IN IF Has(initialData, field) THEN initialData[field].value ELSE <<>>

Count(arr, x) == Cardinality({i \in 1..Len(arr) : arr[i] = x})

SameItems(a, b) ==
  /\ Len(a) = Len(b)
  /\ \A i \in 1..Len(a) : Count(a, a[i]) = Count(b, a[i])

(* C8: a delete removes the session from the store and leaves every log    *)
(* binding and log file as it was; an initialize of an id that has no      *)
(* session (it was deleted, or never there) gives a session whose history  *)
(* is the new initial data and whose cached results are null, with the     *)
(* id's log binding as it was.                                             *)
C8_DeleteKeepsBinding ==
  [][\A id \in PatientIds :
       /\ DeleteStep(id) =>
            /\ logFileMap' = logFileMap
            /\ logFiles' = logFiles
            /\ last'.status = 200 => ~patientExists(Next2, id)
       /\ (InitializeStep(id) /\ last'.status = 201 /\ ~patientExists(Current, id)) =>
            /\ \A s \in StreamNames :
                 SameItems(HistoryOf(Next2, id, s),
                           InitialStream(last'.request.initialData, s))
            /\ CachesOf(Next2, id) = NoCaches
            /\ logFileMap' = logFileMap]_vars

\* an id whose log name is bound had no session (it was deleted) and was
\* initialized again with data
C8_Witness ==
  \E id \in PatientIds :
    /\ last.op = "initialize" /\ last.id = id /\ last.status = 201
    /\ ~last.found
    /\ IsSome(logFileMap[id])
    /\ patientExists(Current, id)
    /\ HistoryOf(Current, id, "glucose") # <<>>
    /\ CachesOf(Current, id) = NoCaches

(* C9: after an initialize the session is made of the arguments of that    *)
(* call alone: the profile, the three streams (the initial data, sorted),  *)
(* tempBasal, null cached results, the default settings overlaid by the    *)
(* supplied ones, and createdAt; nothing of a session the id had before    *)
(* remains.                                                                *)
C9_InitializeReplaces ==
  [][\A id \in PatientIds :
       (InitializeStep(id) /\ last'.status = 201) =>
         LET body == last'.request
             patient == Patient(Next2, id)
         IN /\ ProfileOf(Next2, id) = Get(body.profile)
            /\ \A s \in StreamNames :
                 /\ IsSorted(s, HistoryOf(Next2, id, s))
                 /\ SameItems(HistoryOf(Next2, id, s), InitialStream(body.initialData, s))
            /\ patient.currentState.tempBasal = Opt(body.initialData, "currentTempBasal")
            /\ CachesOf(Next2, id) = NoCaches
            /\ DOMAIN patient.settings = (DOMAIN defaultSettings) \cup (DOMAIN body.settings)
            /\ \A f \in DOMAIN patient.settings :
                 patient.settings[f] = IF Has(body.settings, f) THEN body.settings[f]
                                       ELSE defaultSettings[f]
            /\ patient.createdAt = ToISOString(now)
            /\ patient.lastUpdated = ToISOString(now)]_vars

\* a session that had logged a calculation was replaced by an initialize
\* with other settings
C9_Witness ==
  \E id \in PatientIds :
    /\ last.op = "initialize" /\ last.id = id /\ last.status = 201
    /\ last.found
    /\ IsSome(logFileMap[id])
    /\ patientExists(Current, id)
    /\ CachesOf(Current, id) = NoCaches
    /\ Patient(Current, id).settings = defaultSettings

(* C10: a calculate with empty newData changes nothing of the session that *)
(* the pipeline reads (histories, profile, tempBasal, settings), and a     *)
(* calculate that repeats the request of the calculate before it, with     *)
(* empty newData and the collaborators behaving as before, is answered     *)
(* with the same suggestion and the same first IOB entry.                  *)
C10_CalculateIdempotent ==
  [][\A id \in PatientIds :
       (/\ CalculateStep(id)
        /\ patientExists(Current, id)
        /\ IsSome(last'.request.body.currentTime)
        /\ DOMAIN last'.request.body.newData = {}) =>
         /\ \A s \in StreamNames : HistoryOf(Next2, id, s) = HistoryOf(Current, id, s)
         /\ ProfileOf(Next2, id) = ProfileOf(Current, id)
         /\ Patient(Next2, id).currentState.tempBasal
              = Patient(Current, id).currentState.tempBasal
         /\ Patient(Next2, id).settings = Patient(Current, id).settings
         /\ (/\ last.op = "calculate" /\ last.id = id /\ last.status = 200
             /\ last'.request = last.request) =>
              /\ last'.status = 200
              /\ last'.body.suggestion = last.body.suggestion
              /\ last'.body.iob = last.body.iob]_vars

\* a calculate with empty newData completed on a session with pump events
\* and a running temp basal, and the session caches that very run
C10_Witness ==
  \E id \in PatientIds :
    /\ last.op = "calculate" /\ last.id = id /\ last.status = 200
    /\ DOMAIN last.request.body.newData = {}
    /\ patientExists(Current, id)
    /\ CachesOf(Current, id) = CachesFrom(last.body)
    /\ HistoryOf(Current, id, "pump") # <<>>
    /\ IsSome(Patient(Current, id).currentState.tempBasal)

----------------------------------------------------------------------------
(* C11: a calculate that completes on a session whose glucose stream holds *)
(* fewer than 36 samples when the meal stage runs returns a meal result    *)
(* with mealCOB 0 and a non-empty reason, whatever generateMeal returned,  *)
(* and caches that same result.                                            *)
C11_MealDegraded ==
  [][\A id \in PatientIds :
       (/\ CalculateStep(id)
        /\ last'.status = 200
        /\ Len(HistoryOf(Next2, id, "glucose")) < MealMinGlucose) =>
         /\ last'.body.meal.mealCOB = 0
         /\ Has(last'.body.meal, "reason")
         /\ last'.body.meal.reason # ""
         /\ Patient(Next2, id).currentState.cachedMeal = Some(last'.body.meal)]_vars

\* a calculate completed on a short glucose stream with carb entries: the
\* collaborator counted carbs, and the returned COB is 0 all the same
C11_Witness ==
  \E id \in PatientIds :
    /\ last.op = "calculate" /\ last.id = id /\ last.status = 200
    /\ patientExists(Current, id)
    /\ Len(HistoryOf(Current, id, "glucose")) < MealMinGlucose
    /\ HistoryOf(Current, id, "carbs") # <<>>
    /\ last.body.meal.carbs > 0
    /\ last.body.meal.mealCOB = 0
    /\ Patient(Current, id).currentState.cachedMeal = Some(last.body.meal)

----------------------------------------------------------------------------
\* typeof(profile.carb_ratio) === 'undefined' || profile.carb_ratio < 3
RatioOutOfBounds(profile) ==
  ~Has(profile, "carb_ratio") \/ profile.carb_ratio < 3

(* C12: a calculate that completes on a session whose stored profile has   *)
(* no carb ratio or one below 3 returns the degraded meal result (carbs 0, *)
(* mealCOB 0, a reason naming the out-of-bounds ratio) and its run did not *)
(* call generateMeal.                                                      *)
C12_LowRatioSkipsMeal ==
  [][\A id \in PatientIds :
       (/\ CalculateStep(id)
        /\ patientExists(Current, id)
        /\ RatioOutOfBounds(ProfileOf(Current, id))
        /\ last'.status = 200) =>
         /\ \A i \in 1..Len(last'.body.calls) : last'.body.calls[i] # "meal"
         /\ last'.body.meal.carbs = 0
         /\ last'.body.meal.mealCOB = 0
         /\ Has(last'.body.meal, "reason")
         /\ last'.body.meal.reason = "carb_ratio out of bounds"]_vars

----------------------------------------------------------------------------
(* C13: a calculate whose pipeline run completes (the session exists,      *)
(* currentTime is given, the glucose stream is not empty and no stage      *)
(* fails) is answered 200 with the computed suggestion also when the       *)
(* append of its log record raises.                                        *)
C13_AppendFailureTolerated ==
  [][\A id \in PatientIds :
       (/\ CalculateStep(id)
        /\ patientExists(Current, id)
        /\ IsSome(last'.request.body.currentTime)
        /\ logging(last'.request.body.options)
        /\ last'.request.env.fault = "append"
        /\ HistoryOf(Next2, id, "glucose") # <<>>) =>
         /\ last'.status = 200
         /\ Has(last'.body, "suggestion")]_vars

----------------------------------------------------------------------------
(* C14: every request that completes a pipeline run for a session, a       *)
(* calculate with whatever options or a scenario, leaves the session with  *)
(* a bound log file that holds a record: after the step the id has a       *)
(* binding and the bound file is there. (With one record appended per run  *)
(* the log of a session that completed a run cannot be missing or empty.)  *)
C14_EveryRunLogged ==
  [][\A id \in PatientIds :
       (/\ CalculateStep(id) \/ ScenarioStep(id)
        /\ last'.status = 200) =>
         /\ IsSome(logFileMap'[id])
         /\ fileExists(logFiles', Get(logFileMap'[id]))]_vars

----------------------------------------------------------------------------
(* C15: process.stderr.write is the original writer in every state between *)
(* two requests, after decision calls that returned and after decision     *)
(* calls that threw alike; a chunk written between requests therefore goes *)
(* to the original writer and into no capture's stderrOutput.              *)
C15_WriterRestored == stderrWrite = "original"

\* a decision call wrote to stderr and threw, and the writer in place after
\* the request is the original one
C15_Witness ==
  /\ stderrWrite = "original"
  /\ last.status = 500
  /\ last.found
  /\ last.request.env.fault = "decision_throw"
  /\ last.request.env.writes # <<>>
  /\ last.body.error = "determine_basal failed"

----------------------------------------------------------------------------
(* C16: a calculate for an id without a session is answered 404, and a     *)
(* calculate without currentTime for an id with a session is answered 400; *)
(* either way the step leaves the sessions, the histories, the caches, the *)
(* log bindings and the log files as they were, newData or not.            *)
C16_RejectedCalculateChangesNothing ==
  [][\A id \in PatientIds :
       CalculateStep(id) =>
         /\ ~patientExists(Current, id) =>
              /\ last'.status = 404
              /\ Next2 = Current
              /\ logFileMap' = logFileMap
              /\ logFiles' = logFiles
         /\ (patientExists(Current, id) /\ ~IsSome(last'.request.body.currentTime)) =>
              /\ last'.status = 400
              /\ Next2 = Current
              /\ logFileMap' = logFileMap
              /\ logFiles' = logFiles]_vars

\* a calculate with newData, logging on and no currentTime was answered 400
\* on a session, which holds neither the pushed reading nor a binding
C16_Witness ==
  \E id \in PatientIds :
    /\ last.op = "calculate" /\ last.id = id /\ last.status = 400
    /\ last.found
    /\ Has(last.request.body.newData, "glucoseReadings")
    /\ logging(last.request.body.options)
    /\ patientExists(Current, id)
    /\ Len(HistoryOf(Current, id, "glucose")) = 1
    /\ ~IsSome(logFileMap[id])

----------------------------------------------------------------------------
PatchStep(id) ==
  /\ last'.op = "patchProfile"
  /\ last'.id = id
  /\ PatchProfile(id, last'.request)

(* C17: a PATCH on a session whose stored profile meets the creation-time  *)
(* constraints either merges the supplied fields into it and is answered   *)
(* 200, when the merged profile meets them too, or is rejected and leaves  *)
(* the stored profile as it was, when the merge would make the carb ratio  *)
(* less than 3 or the sensitivity 0 or less; the stored profile meets the  *)
(* constraints after the step in both cases.                               *)
C17_PatchValidates ==
  [][\A id \in PatientIds :
       (/\ PatchStep(id)
        /\ patientExists(Current, id)
        /\ ValidProfile(ProfileOf(Current, id))) =>
         /\ ValidProfile(ProfileOf(Next2, id))
         /\ IF ValidProfile(Overlay(ProfileOf(Current, id), last'.request))
            THEN /\ last'.status = 200
                 /\ ProfileOf(Next2, id) = Overlay(ProfileOf(Current, id), last'.request)
            ELSE /\ last'.status # 200
                 /\ ProfileOf(Next2, id) = ProfileOf(Current, id)]_vars

----------------------------------------------------------------------------
\* the response to a "basic" scenario started at baseTime: three results in
\* step order with glucose 115, 113, 111 at 5-minute spacing, each with the
\* suggestion of a decision made at that step's time, and the summary of
\* the three
BasicOutcome(response, baseTime) ==
  /\ response.status = 200
  /\ Len(response.body.results) = 3
  /\ \A i \in 1..3 :
       /\ response.body.results[i].step = i
       /\ response.body.results[i].glucose = 115 - (2 * (i - 1))
       /\ response.body.results[i].time = ToISOString(baseTime + (300 * (i - 1)))
       /\ Has(response.body.results[i].suggestion, "of")
       /\ response.body.results[i].suggestion.of.currentTime
            = baseTime + (300 * (i - 1))
  /\ response.body.summary.steps = 3
  /\ response.body.summary.finalGlucose = 111

\* the decision of every step was made on that step's sample as the latest
\* glucose: the run came after the append
SamplesSeen(response, baseTime) ==
  \A i \in 1..Len(response.body.results) :
    /\ response.body.results[i].suggestion.of.glucose_status.glucose
         = response.body.results[i].glucose
    /\ response.body.results[i].suggestion.of.glucose_status.date
         = baseTime + (300 * (i - 1))

\* the session holds nothing dated at or after the clock, and its cleanup,
\* if enabled, has a window that is not negative
PastSession(st, id, clock) ==
  /\ newestTimeOf(st, id) < clock
  /\ Patient(st, id).settings.autoCleanup =>
       cutoffTime(clock, Patient(st, id).settings) <= clock

----------------------------------------------------------------------------
StageOrder == <<"autosens", "iob", "meal", "glucose", "decision">>

IsPrefix(a, b) == Len(a) <= Len(b) /\ a = SubSeq(b, 1, Len(a))

\* the collaborator whose call raised the error
FailedStage(error) ==
  CASE error = "autosens failed" -> "autosens"
    [] error = "iob failed" -> "iob"
    [] error = "meal failed" -> "meal"
    [] error = "No glucose data available for calculation" -> "glucose"
    [] OTHER -> "decision"

(* C19: the collaborator calls of one calculate run are an initial part of *)
(* autosens, IOB, meal, glucose status, decision, or of the same without   *)
(* autosens, so each is called at most once and in that order; autosens is *)
(* called only if enabled; a run that completes has called IOB, meal,      *)
(* glucose status and decision once each; a run that a stage fails has     *)
(* that stage's call as its last.                                          *)
C19_StagesInOrder ==
  [][\A id \in PatientIds :
       (/\ CalculateStep(id)
        /\ patientExists(Current, id)
        /\ IsSome(last'.request.body.currentTime)) =>
         /\ \/ IsPrefix(last'.body.calls, StageOrder)
            \/ IsPrefix(last'.body.calls, Tail(StageOrder))
         /\ (last'.body.calls # <<>> /\ Head(last'.body.calls) = "autosens") =>
              runAutosens(last'.request.body.options)
         /\ (last'.status = 200 \/ last'.body.error = "append failed") =>
              /\ Len(last'.body.calls) >= 4
              /\ last'.body.calls[Len(last'.body.calls)] = "decision"
         /\ (last'.status # 200 /\ last'.body.error \in StageErrors) =>
              /\ last'.body.calls # <<>>
              /\ last'.body.calls[Len(last'.body.calls)]
                   = FailedStage(last'.body.error)]_vars

\* a run on a long glucose stream called autosens and then failed in the
\* meal stage: its calls end there
C19_Witness ==
  /\ last.op = "calculate"
  /\ last.status = 500
  /\ last.body.error = "meal failed"
  /\ last.body.calls = <<"autosens", "iob", "meal">>

----------------------------------------------------------------------------
(* C20: in a calculate that completes, the autosens argument the decision  *)
(* collaborator was called with is the autosens result of the run, the one *)
(* the response returns and the IOB stage was given, the neutral result of *)
(* a short glucose stream included.                                        *)
C20_DecisionGetsRunAutosens ==
  [][\A id \in PatientIds :
       (/\ CalculateStep(id)
        /\ last'.status = 200
        /\ Has(last'.body.suggestion, "of")) =>
         /\ last'.body.suggestion.of.autosens_data = last'.body.autosens
         /\ IsSome(last'.body.autosens) =>
              /\ Has(last'.body.iob.of, "autosens")
              /\ last'.body.iob.of.autosens = Get(last'.body.autosens)]_vars

----------------------------------------------------------------------------
(* C21: a calculate that passed the 404 and 400 checks and whose glucose   *)
(* stream is empty when the glucose status is asked for (after newData was *)
(* ingested) fails: it is answered 500 without a suggestion, its run made  *)
(* no decision call, the cached IOB, meal and lastCalculation are the ones *)
(* from before the request, and no log name is bound and no log file       *)
(* written.                                                                *)
C21_EmptyGlucoseFails ==
  [][\A id \in PatientIds :
       (/\ CalculateStep(id)
        /\ patientExists(Current, id)
        /\ IsSome(last'.request.body.currentTime)
        /\ HistoryOf(Next2, id, "glucose") = <<>>) =>
         /\ last'.status = 500
         /\ ~Has(last'.body, "suggestion")
         /\ \A i \in 1..Len(last'.body.calls) : last'.body.calls[i] # "decision"
         /\ CachesOf(Next2, id) = CachesOf(Current, id)
         /\ logFileMap' = logFileMap
         /\ logFiles' = logFiles]_vars

\* a calculate with logging on failed for want of glucose on a session that
\* holds the results of an earlier run, after the glucose status was asked
\* for; the id has no log name
C21_Witness ==
  \E id \in PatientIds :
    /\ last.op = "calculate" /\ last.id = id /\ last.status = 500
    /\ last.body.error = "No glucose data available for calculation"
    /\ last.body.calls = <<"iob", "meal", "glucose">>
    /\ logging(last.request.body.options)
    /\ patientExists(Current, id)
    /\ HistoryOf(Current, id, "glucose") = <<>>
    /\ AllCached(CachesOf(Current, id))
    /\ ~IsSome(logFileMap[id])

----------------------------------------------------------------------------
\* how often a run called the collaborator `stage`
CallCount(calls, stage) == Cardinality({i \in 1..Len(calls) : calls[i] = stage})

(* C22: in a calculate that passed the 404 and 400 checks, with autosens   *)
(* enabled (enableAutosens not false) and fewer than 24 glucose samples    *)
(* the autosens collaborator is not called and the autosens result of a    *)
(* completed run is the neutral one, ratio 1 and the sensitivity of the    *)
(* stored profile; with 24 samples or more the collaborator is called      *)
(* exactly once, with deviations 96 and retrospective false, on the        *)
(* session's glucose stream; with enableAutosens false it is not called.   *)
C22_AutosensThreshold ==
  [][\A id \in PatientIds :
       (/\ CalculateStep(id)
        /\ patientExists(Current, id)
        /\ IsSome(last'.request.body.currentTime)) =>
         LET enabled == runAutosens(last'.request.body.options)
             samples == Len(HistoryOf(Next2, id, "glucose"))
         IN /\ (enabled /\ samples < 24) =>
                 /\ CallCount(last'.body.calls, "autosens") = 0
                 /\ last'.status = 200 =>
                      /\ IsSome(last'.body.autosens)
                      /\ ~Has(Get(last'.body.autosens), "of")
                      /\ Get(last'.body.autosens).ratio = 1
                      /\ Get(last'.body.autosens).newisf = ProfileOf(Current, id).sens
            /\ (enabled /\ samples >= 24) =>
                 /\ CallCount(last'.body.calls, "autosens") = 1
                 /\ last'.status = 200 =>
                      /\ IsSome(last'.body.autosens)
                      /\ Has(Get(last'.body.autosens), "of")
                      /\ Get(last'.body.autosens).of.deviations = 96
                      /\ Get(last'.body.autosens).of.retrospective = FALSE
                      /\ Get(last'.body.autosens).of.glucose_data
                           = HistoryOf(Next2, id, "glucose")
            /\ ~enabled => CallCount(last'.body.calls, "autosens") = 0]_vars

\* a calculate with autosens enabled completed on a session of exactly 24
\* samples: the collaborator was called, once, before the IOB stage
C22_Witness ==
  \E id \in PatientIds :
    /\ last.op = "calculate" /\ last.id = id /\ last.status = 200
    /\ runAutosens(last.request.body.options)
    /\ patientExists(Current, id)
    /\ Len(HistoryOf(Current, id, "glucose")) = 24
    /\ last.body.calls = <<"autosens", "iob", "meal", "glucose", "decision">>
    /\ Get(last.body.autosens).of.deviations = 96

----------------------------------------------------------------------------
\* options.overrideProfile, no fields when it is not given
OverrideOf(options) ==
  IF Has(options, "overrideProfile") THEN options.overrideProfile ELSE <<>>

(* C23: in a calculate whose decision collaborator was called and returned *)
(* a suggestion, the profile it was given has the fields of the stored     *)
(* profile and of the override, each override field with the override's    *)
(* value and every other field with the stored value; the temp it was      *)
(* given is the session's tempBasal, or rate = baseline rate of that       *)
(* effective profile and duration 0 when the session has none; and the     *)
(* stored profile and the stored tempBasal are after the step what they    *)
(* were before it.                                                         *)
C23_OverrideIsLocal ==
  [][\A id \in PatientIds :
       (/\ CalculateStep(id)
        /\ last'.status = 200
        /\ Has(last'.body.suggestion, "of")) =>
         LET stored == ProfileOf(Current, id)
             override == OverrideOf(last'.request.body.options)
             given == last'.body.suggestion.of
             tempBasal == Patient(Current, id).currentState.tempBasal
         IN /\ DOMAIN given.profile = (DOMAIN stored) \cup (DOMAIN override)
            /\ \A f \in DOMAIN override : given.profile[f] = override[f]
            /\ \A f \in (DOMAIN stored) \ (DOMAIN override) :
                 given.profile[f] = stored[f]
            /\ IsSome(tempBasal) => given.currenttemp = Get(tempBasal)
            /\ ~IsSome(tempBasal) =>
                 given.currenttemp
                   = [rate |-> given.profile.current_basal, duration |-> 0]
            /\ ProfileOf(Next2, id) = stored
            /\ Patient(Next2, id).currentState.tempBasal = tempBasal]_vars

\* a calculate with an override of the baseline rate completed on a session
\* without a temp basal: the decision got the overriding rate as the rate of
\* the default temp, and the stored profile keeps its own
C23_Witness ==
  \E id \in PatientIds :
    /\ last.op = "calculate" /\ last.id = id /\ last.status = 200
    /\ Has(last.body.suggestion, "of")
    /\ Has(OverrideOf(last.request.body.options), "current_basal")
    /\ patientExists(Current, id)
    /\ ~IsSome(Patient(Current, id).currentState.tempBasal)
    /\ last.body.suggestion.of.currenttemp.rate
         = OverrideOf(last.request.body.options).current_basal
    /\ last.body.suggestion.of.currenttemp.duration = 0
    /\ ProfileOf(Current, id).current_basal
         # OverrideOf(last.request.body.options).current_basal

----------------------------------------------------------------------------
\* the text of the chunks, in the order they were written
ChunkData(writes) == [i \in 1..Len(writes) |-> writes[i].data]

(* C24: in a calculate that completes, the chunks that reached the real    *)
(* stderr writer are the chunks the decision call wrote, unchanged and in  *)
(* order, and the diagnostic text returned is the concatenation of the     *)
(* data of all of them, strings and other chunks alike, and nothing else.  *)
C24_CaptureIsEveryWrite ==
  [][\A id \in PatientIds :
       (CalculateStep(id) /\ last'.status = 200) =>
         /\ last'.body.forwarded = last'.request.env.writes
         /\ last'.body.stderrLog = ChunkData(last'.request.env.writes)]_vars

----------------------------------------------------------------------------
\* the handlers that have installed the stderr wrapper and not yet put the
\* writer back
ActiveCaptures ==
  Cardinality({i \in 1..Len(loop.frames) : loop.frames[i].pc = "deciding"})

\* the handler that responds in the step
Finishing ==
  CHOOSE f \in {loop.frames[i] : i \in 1..Len(loop.frames)} :
    f.n = loop'.served[Len(loop'.served)]

(* C25: the requests are answered in the order they came in; at any moment *)
(* at most one handler has been called and has not responded, and at most  *)
(* one stderr capture is in place; a handler starts on the process state   *)
(* the handler before it left when it responded; and the state and the     *)
(* response a handler leaves are those of the whole handler run on the     *)
(* state it started on, with nothing of another request in between.        *)
C25_OneAtATime ==
  [][/\ Len(loop'.frames) <= 1
     /\ ActiveCaptures' <= 1
     /\ (stderrWrite' = "wrapper") <=> (ActiveCaptures' = 1)
     /\ \A i \in 1..Len(loop'.served) : loop'.served[i] = i
     /\ (Len(loop'.frames) > Len(loop.frames) /\ IsSome(loop.left)) =>
          loop'.frames[Len(loop'.frames)].at = Get(loop.left)
     /\ Len(loop'.served) > Len(loop.served) =>
          /\ Seen(Next2, logFileMap', logFiles')
               = [f \in {"st", "map", "files"} |->
                    handleRequest(Finishing.request, Finishing.at, now)[f]]
          /\ last'.status = handleRequest(Finishing.request, Finishing.at, now).response.status
          /\ last'.body = handleRequest(Finishing.request, Finishing.at, now).response.body]_vars

\* a calculate is inside its decision call, with the wrapper installed, on
\* a session an earlier calculate has ingested into, and the next calculate
\* for the session waits in the queue
C25_Witness ==
  /\ Len(loop.frames) = 1
  /\ loop.frames[1].pc = "deciding"
  /\ stderrWrite = "wrapper"
  /\ loop.queue # <<>>
  /\ Head(loop.queue).request.op = "calculate"
  /\ Head(loop.queue).request.id = loop.frames[1].request.id
  /\ last.op = "calculate" /\ last.status = 200

----------------------------------------------------------------------------
(* The retention window as the settings state it *)

\* the length of one unit of the retention period
UnitLength(period) ==
  CASE period = "hours" -> HourSec
    [] period = "days" -> DaySec
    [] period = "weeks" -> WeekSec
    [] period = "months" -> MonthSec
    [] OTHER -> HourSec

StatedWindow(settings) ==
  settings.historyRetentionValue * UnitLength(settings.historyRetentionPeriod)

(* C26: the retention window of a cleanup pass is the session's            *)
(* historyRetentionValue times the length of its unit (an hour, a day, a   *)
(* week, thirty days; an hour for a unit that is none of these), for every *)
(* value the settings hold, 0 included, and the cutoff is the newest key   *)
(* minus that window: the pass keeps the keys at or above that cutoff and  *)
(* no others.                                                              *)
C26_WindowIsValueTimesUnit ==
  [][\A id \in PatientIds :
       CleanupStep(id) =>
         LET settings == Patient(Current, id).settings
             cutoff == SetMax(PreKeys(id)) - StatedWindow(settings)
         IN /\ cutoffTime(SetMax(PreKeys(id)), settings) = cutoff
            /\ AllKeys(Next2, id) = {k \in PreKeys(id) : k >= cutoff}]_vars

\* the same for the sessions whose retention value is not 0
C26_WindowOfNonZeroValue ==
  [][\A id \in PatientIds :
       (CleanupStep(id) /\ Patient(Current, id).settings.historyRetentionValue # 0) =>
         LET settings == Patient(Current, id).settings
             cutoff == SetMax(PreKeys(id)) - StatedWindow(settings)
         IN /\ cutoffTime(SetMax(PreKeys(id)), settings) = cutoff
            /\ AllKeys(Next2, id) = {k \in PreKeys(id) : k >= cutoff}]_vars

\* a cleanup pass ran on a session whose unit is none of the four
C26_UnknownUnitSeen ==
  \E id \in PatientIds :
    /\ last.op = "calculate" /\ last.id = id
    /\ patientExists(Current, id)
    /\ Patient(Current, id).settings.autoCleanup
    /\ Patient(Current, id).settings.historyRetentionPeriod
         \notin {"hours", "days", "weeks", "months"}
    /\ DOMAIN last.request.body.newData # {}
    /\ AllKeys(Current, id) # {}

----------------------------------------------------------------------------
(* The items of an ingest *)

\* the items addNewData pushes to a stream: the readings carry dateString
StoredAs(stream, items) ==
  IF stream = "glucose" THEN renamedReadings(items) ELSE items

\* a stream between the push and the cleanup of an ingest, in push order
PreItems(id, stream) ==
  HistoryOf(Current, id, stream)
    \o StoredAs(stream, PushedTo(last'.request.body.newData, stream))

(* C27: an ingest appends every item of each sequence of newData to the    *)
(* matching stream, duplicates included, and leaves the three streams      *)
(* sorted; the retention pass runs inside the ingest exactly when the      *)
(* session's autoCleanup is on: with autoCleanup off every stream holds    *)
(* the old items and the new ones, each as often as before plus as often   *)
(* as supplied, and with autoCleanup on every stream holds those of them   *)
(* whose key is within the retention window of the newest key.             *)
C27_IngestAppendsAll ==
  [][\A id \in PatientIds :
       IngestStep(id) =>
         LET settings == Patient(Current, id).settings
             cutoff == cutoffTime(SetMax(PreKeys(id) \cup {0}), settings)
         IN \A s \in StreamNames :
              /\ IsSorted(s, HistoryOf(Next2, id, s))
              /\ ~settings.autoCleanup =>
                   SameItems(HistoryOf(Next2, id, s), PreItems(id, s))
              /\ settings.autoCleanup =>
                   /\ SameItems(HistoryOf(Next2, id, s),
                                SelectSeq(PreItems(id, s),
                                          LAMBDA item : KeyOf(s, item) >= cutoff))
                   /\ \A k \in Keys(s, HistoryOf(Next2, id, s)) :
                        k >= cutoffTime(SetMax(AllKeys(Next2, id)), settings)]_vars

\* with autoCleanup off an ingest left a reading that lies outside the
\* retention window of the newest key
C27_Witness ==
  \E id \in PatientIds :
    /\ last.op = "calculate" /\ last.id = id /\ last.status = 200
    /\ patientExists(Current, id)
    /\ ~Patient(Current, id).settings.autoCleanup
    /\ Len(PushedTo(last.request.body.newData, "glucose")) = 1
    /\ Len(HistoryOf(Current, id, "glucose")) = 2
    /\ \E k \in AllKeys(Current, id) :
         k < cutoffTime(SetMax(AllKeys(Current, id)), Patient(Current, id).settings)

\* an ingest pushed a reading equal to one the stream held, and both stayed
C27_DuplicateKept ==
  \E id \in PatientIds :
    /\ last.op = "calculate" /\ last.id = id /\ last.status = 200
    /\ patientExists(Current, id)
    /\ Len(PushedTo(last.request.body.newData, "glucose")) = 1
    /\ Len(HistoryOf(Current, id, "glucose")) = 2
    /\ HistoryOf(Current, id, "glucose")[1] = HistoryOf(Current, id, "glucose")[2]

----------------------------------------------------------------------------
(* The built-in templates *)

\* the profile and the streams a session created from a template starts with
StartsFrom(st, testCase, id, clock) ==
  LET made == createTestPatientHandler(st, testCase, id, clock).st
  IN [profile |-> ProfileOf(made, id),
      history |-> [s \in StreamNames |-> HistoryOf(made, id, s)]]

(* C28: sessions are isolated from the built-in templates: a PATCH of the  *)
(* profile, a calculate (with or without newData) or a scenario run on a   *)
(* session leaves the profile and the history a later create from a        *)
(* template starts from as they were before the operation.                 *)
C28_TemplatesIsolated ==
  [][\A id \in PatientIds :
       (PatchStep(id) \/ CalculateStep(id) \/ ScenarioStep(id)) =>
         \A testCase \in TestCaseNames, other \in PatientIds :
           StartsFrom(Next2, testCase, other, now')
             = StartsFrom(Current, testCase, other, now')]_vars

----------------------------------------------------------------------------
(* C29: a cleanup pass never removes the item that carries the newest key: *)
(* whatever retention settings the session holds, zero and negative values *)
(* included, a session with at least one history item before the pass has  *)
(* the newest key, and so at least one item, after it.                     *)
C29_NewestSurvives ==
  [][\A id \in PatientIds :
       CleanupStep(id) =>
         /\ AllKeys(Next2, id) # {}
         /\ SetMax(PreKeys(id)) \in AllKeys(Next2, id)]_vars

\* the same for the sessions whose retention value is not negative
C29_NewestSurvivesWindow ==
  [][\A id \in PatientIds :
       (CleanupStep(id) /\ Patient(Current, id).settings.historyRetentionValue >= 0) =>
         /\ AllKeys(Next2, id) # {}
         /\ SetMax(PreKeys(id)) \in AllKeys(Next2, id)]_vars

----------------------------------------------------------------------------
(* The cleanup pass on its own *)

\* the session as the cleanup pass of an ingest finds it
BeforeCleanup(id) ==
  sortHistoryArrays(pushNewData(Current, id, last'.request.body.newData), id)

StreamsOf(st, id) == [s \in StreamNames |-> HistoryOf(st, id, s)]

\* the session without its history: the profile, the current state, the
\* settings and the dates
RestOf(st, id) ==
  [profile |-> ProfileOf(st, id),
   currentState |-> Patient(st, id).currentState,
   settings |-> Patient(st, id).settings,
   createdAt |-> Patient(st, id).createdAt,
   lastUpdated |-> Patient(st, id).lastUpdated]

\* a pass took the session from pre to once, and a second one to twice
PassesAgree(pre, once, twice, id) ==
  /\ StreamsOf(twice, id) = StreamsOf(once, id)
  /\ RestOf(once, id) = RestOf(pre, id)
  /\ RestOf(twice, id) = RestOf(pre, id)
  /\ once.write = pre.write
  /\ \A testCase \in TestCaseNames, f \in ObjectFields :
       once.heap[Ref(testCase, f)] = pre.heap[Ref(testCase, f)]

SecondPass(pre, once, id) == PassesAgree(pre, once, cleanupOldData(once, id), id)

FirstPass(pre, id) ==
  /\ SecondPass(pre, cleanupOldData(pre, id), id)
  /\ StreamsOf(Next2, id) = StreamsOf(cleanupOldData(pre, id), id)

(* C30: cleanup is idempotent and touches the three streams only: the      *)
(* streams a second cleanupOldData leaves are the streams the first one    *)
(* left, which are the streams of the session after the ingest, and a pass *)
(* leaves the profile, the current state (cached results and temp basal),  *)
(* the settings and the dates of the session, the templates and the writer *)
(* as they were; the ingest that ran it leaves the log bindings and the    *)
(* log files to the logging of the calculate.                              *)
C30_CleanupIdempotent ==
  [][\A id \in PatientIds :
       CleanupStep(id) =>
         /\ FirstPass(BeforeCleanup(id), id)
         /\ ~logging(last'.request.body.options) =>
              /\ logFileMap' = logFileMap
              /\ logFiles' = logFiles]_vars

\* the pass of an ingest removed the backdated carb entry just pushed, on a
\* session that holds cached results
C30_Witness ==
  \E id \in PatientIds :
    /\ last.op = "calculate" /\ last.id = id /\ last.status = 200
    /\ patientExists(Current, id)
    /\ Patient(Current, id).settings.autoCleanup
    /\ Len(PushedTo(last.request.body.newData, "carbs")) = 1
    /\ HistoryOf(Current, id, "carbs") = <<>>
    /\ AllCached(CachesOf(Current, id))

----------------------------------------------------------------------------
(* A calculate whose run fails after the ingest *)

\* the ingest step was answered with the failure of a pipeline stage
FailedIngestStep(id) ==
  /\ IngestStep(id)
  /\ last'.status = 500
  /\ last'.body.error \in StageErrors

\* the items of a stream the ingest keeps: all of them, or with autoCleanup
\* on those at or above the cutoff of the newest key
KeptItems(id, stream, settings, cutoff) ==
  IF settings.autoCleanup
  THEN SelectSeq(PreItems(id, stream), LAMBDA item : KeyOf(stream, item) >= cutoff)
  ELSE PreItems(id, stream)

(* C31: the ingest of a calculate is not rolled back when its pipeline run *)
(* fails: after a calculate with newData that passed the 404 and 400       *)
(* checks and was answered with the failure of a stage, every stream holds *)
(* the old and the new items that the sort and the retention pass left, in *)
(* sorted order, lastUpdated is the time of the request, and the cached    *)
(* results, the profile, the temp basal and the settings are the ones the  *)
(* session held before.                                                    *)
C31_IngestKeptOnFailure ==
  [][\A id \in PatientIds :
       FailedIngestStep(id) =>
         LET settings == Patient(Current, id).settings
         IN /\ \A s \in StreamNames :
                 /\ SameItems(HistoryOf(Next2, id, s),
                              KeptItems(id, s, settings,
                                        cutoffTime(SetMax(PreKeys(id) \cup {0}), settings)))
                 /\ IsSorted(s, HistoryOf(Next2, id, s))
            /\ Patient(Next2, id).lastUpdated = ToISOString(now)
            /\ CachesOf(Next2, id) = CachesOf(Current, id)
            /\ ProfileOf(Next2, id) = ProfileOf(Current, id)
            /\ Patient(Next2, id).currentState.tempBasal
                 = Patient(Current, id).currentState.tempBasal
            /\ Patient(Next2, id).settings = settings]_vars

\* a calculate pushed a pump event, the retention pass removed the only
\* reading, the run failed for want of glucose: the event is in the pump
\* stream, lastUpdated is later than createdAt, and the results of an
\* earlier run are still cached
C31_Witness ==
  \E id \in PatientIds :
    /\ last.op = "calculate" /\ last.id = id /\ last.status = 500
    /\ last.body.error \in StageErrors
    /\ patientExists(Current, id)
    /\ Len(PushedTo(last.request.body.newData, "pump")) = 1
    /\ HistoryOf(Current, id, "pump") = PushedTo(last.request.body.newData, "pump")
    /\ HistoryOf(Current, id, "glucose") = <<>>
    /\ Patient(Current, id).lastUpdated = ToISOString(now)
    /\ Patient(Current, id).lastUpdated # Patient(Current, id).createdAt
    /\ AllCached(CachesOf(Current, id))

====
